---- MODULE Spec2Model ----
(***************************************************************************)
(* The idle resource-economy engine of the Camel Drop game (2D version):   *)
(* the Ledger, the Timer Set, the one-second resource tick with its five   *)
(* resolvers, the purchase handlers, caravan formation, the user spawn,    *)
(* the nomad migration (prestige) and the debounced persistence.           *)
(*                                                                         *)
(* Every handler of the source is one action.  The handlers are written    *)
(* as operators over a record of the program's globals, so that a handler  *)
(* that calls another one is the composition of the two operators, in the  *)
(* order of the source.  Math.random is a nondeterministic choice: an      *)
(* operator that rolls returns the set of the states it can produce.       *)
(*                                                                         *)
(* Spec is the program without its clock: ticks, clicks and save timeouts  *)
(* interleave freely.  SpecTimed adds the clock (the 1000 ms interval, the *)
(* 500 ms save timeout) and the page being opened again.  SpecLoad,        *)
(* SpecResolvers, SpecStatus, SpecSpend and SpecGain call hydration, the   *)
(* resolvers, the Status Notifier and the spend and gain primitives on     *)
(* their own.  SpecSnapshot runs the tick and the migration statement by   *)
(* statement, with the save timeout dispatched between handlers.           *)
(***************************************************************************)
EXTENDS Integers, Sequences, FiniteSets, TLC

VARIABLES
    counter,                \* camelCount
    goldAmount,
    caravanCount,
    farmCount,
    grassAmount,
    grasslandCount,
    guardCampCount,
    nomadTokens,
    caravanGoldTimer,
    farmProductionTimer,
    grassConsumptionTimer,
    banditTimer,
    camels,                 \* number of physics entities in the camels array
    nomadDisabled,          \* nomadButton carries the class 'disabled'
    saveThrottleTimeout,    \* TRUE while the handle of a debounced save is held (not null)
    pendingSaves,           \* due times of the save timeouts scheduled and neither cleared nor fired
    lastStatusText,         \* the message the status label shows
    lastStatusUpdateTime,   \* Date.now() when that message was last written to the label
    emitted,                \* messages handed to updateStatusMessage by the last handler
    queued,                 \* calls of queueSaveGameState made by the last handler
    flags,                  \* the five changed flags of the resolvers, when the last handler was a tick
    logged,                 \* what the last handler passed to console.error
    uncaught,               \* an exception escaped the last handler
    now,                    \* Date.now(), in milliseconds since the page was first opened
    nextTickAt,             \* when the interval of startResourceLoop fires next
    dirtySince,             \* when the oldest change not yet in the stored snapshot was made (-1: none)
    localStorage,           \* the value stored under STORAGE_KEY
    camelImageComplete,     \* camelImage.complete
    freshStart,             \* this session found nothing stored and started from the defaults
    lastOp,                 \* the handler that ran last
    arg,                    \* the amount passed to the last direct call of a spend primitive
    ret,                    \* the flag that call returned
    ticks,                  \* resource ticks run so far
    clicks                  \* user events handled so far

vars == <<counter, goldAmount, caravanCount, farmCount, grassAmount,
          grasslandCount, guardCampCount, nomadTokens, caravanGoldTimer,
          farmProductionTimer, grassConsumptionTimer, banditTimer, camels,
          nomadDisabled, saveThrottleTimeout, pendingSaves, lastStatusText,
          lastStatusUpdateTime, emitted, queued, flags, logged, uncaught,
          now, nextTickAt, dirtySince,
          localStorage, camelImageComplete, freshStart, lastOp, arg, ret,
          ticks, clicks>>

(* The clock and what is derived from it; only the timed specifications move it *)
clock == <<now, nextTickAt, dirtySince>>

----------------------------------------------------------------------------
(* Bounds of the exploration *)

MaxTicks == 2

MaxClicks == 3

MaxBalance == 4

(* Program constants *)

FarmCycle == 2

GrassCycle == 10

CaravanCycle == 60

BanditCycle == 60

FarmCost == 25

GrasslandCost == 50

GuardCost == 100

CaravanCamels == 100

NomadCamelThreshold == 1000

NomadCaravanThreshold == 100

MinRoll == 14

RollSpan == 8

----------------------------------------------------------------------------
(* Arithmetic helpers: Math.min, Math.max, Math.floor of a quotient *)

Min(a, b) == IF a < b THEN a ELSE b

Max(a, b) == IF a > b THEN a ELSE b

FloorDiv(a, b) == a \div b

----------------------------------------------------------------------------
(* The globals as one record *)

LedgerFields == {"counter", "goldAmount", "caravanCount", "farmCount",
                 "grassAmount", "grasslandCount", "guardCampCount", "nomadTokens"}

TimerFields == {"caravanGoldTimer", "farmProductionTimer",
                "grassConsumptionTimer", "banditTimer"}

SnapshotFields == LedgerFields \cup TimerFields

State ==
    [counter |-> counter, goldAmount |-> goldAmount, caravanCount |-> caravanCount,
     farmCount |-> farmCount, grassAmount |-> grassAmount,
     grasslandCount |-> grasslandCount, guardCampCount |-> guardCampCount,
     nomadTokens |-> nomadTokens, caravanGoldTimer |-> caravanGoldTimer,
     farmProductionTimer |-> farmProductionTimer,
     grassConsumptionTimer |-> grassConsumptionTimer, banditTimer |-> banditTimer,
     camels |-> camels, nomadDisabled |-> nomadDisabled,
     saveThrottleTimeout |-> saveThrottleTimeout, pendingSaves |-> pendingSaves,
     lastStatusText |-> lastStatusText,
     lastStatusUpdateTime |-> lastStatusUpdateTime, emitted |-> emitted,
     queued |-> queued, flags |-> flags, logged |-> logged,
     uncaught |-> uncaught, now |-> now]

(* The declarations of the globals: everything zero, no pending save, no status *)
NoStatus == <<"", 0, 0>>

NoFlags == <<FALSE, FALSE, FALSE, FALSE, FALSE>>

Defaults ==
    [counter |-> 0, goldAmount |-> 0, caravanCount |-> 0, farmCount |-> 0,
     grassAmount |-> 0, grasslandCount |-> 0, guardCampCount |-> 0,
     nomadTokens |-> 0, caravanGoldTimer |-> 0, farmProductionTimer |-> 0,
     grassConsumptionTimer |-> 0, banditTimer |-> 0,
     camels |-> 0, nomadDisabled |-> TRUE, saveThrottleTimeout |-> FALSE,
     pendingSaves |-> <<>>, lastStatusText |-> NoStatus,
     lastStatusUpdateTime |-> 0, emitted |-> <<>>, queued |-> 0,
     flags |-> NoFlags, logged |-> "", uncaught |-> FALSE, now |-> 0]

(* A status message: its wording and the (at most two) numbers it embeds *)
Msg(kind, a, b) == <<kind, a, b>>

----------------------------------------------------------------------------
(* Status Notifier and persistence queue *)

StatusWindow == 4000

SaveDelay == 500

TickInterval == 1000

(* updateStatusMessage that restarts the window on a suppressed message *)
updateStatusMessage_SuppressedRestartsWindow(s, message) ==
    [s EXCEPT !.emitted = Append(@, message), !.lastStatusText = message,
              !.lastStatusUpdateTime = s.now]

(* The same text inside the window is suppressed: nothing is written.  Every *)
(* message of the program is a non-empty string and the label exists.        *)
updateStatusMessage(s, message) ==
    IF message = s.lastStatusText /\ s.now - s.lastStatusUpdateTime < StatusWindow
    THEN [s EXCEPT !.emitted = Append(@, message)]
    ELSE [s EXCEPT !.emitted = Append(@, message), !.lastStatusText = message,
                   !.lastStatusUpdateTime = s.now]

(* clearTimeout(saveThrottleTimeout): the handle names the timeout scheduled last *)
clearTimeout(timeouts) == SubSeq(timeouts, 1, Len(timeouts) - 1)

(* queueSaveGameState that does not clear the pending timeout *)
queueSaveGameState_NoClear(s) ==
    [s EXCEPT !.saveThrottleTimeout = TRUE,
              !.pendingSaves = Append(@, s.now + SaveDelay),
              !.queued = @ + 1]

queueSaveGameState(s) ==
    [s EXCEPT !.saveThrottleTimeout = TRUE,
              !.pendingSaves = Append(IF s.saveThrottleTimeout THEN clearTimeout(@) ELSE @,
                                      s.now + SaveDelay),
              !.queued = @ + 1]

updateNomadButtonState(s) ==
    LET unlocked == s.counter >= NomadCamelThreshold
                    \/ s.caravanCount >= NomadCaravanThreshold
    IN [s EXCEPT !.nomadDisabled = ~unlocked]

----------------------------------------------------------------------------
(* Ledger mutators *)

(* gainCamels that does not request a save *)
gainCamels_NoSave(s, amount, shouldSpawnVisual) ==
    IF amount <= 0 THEN s
    ELSE [s EXCEPT !.counter = @ + amount,
                   !.camels = IF shouldSpawnVisual THEN @ + amount ELSE @]

gainCamels(s, amount, shouldSpawnVisual) ==
    IF amount <= 0 THEN s
    ELSE queueSaveGameState(
            [s EXCEPT !.counter = @ + amount,
                      !.camels = IF shouldSpawnVisual THEN @ + amount ELSE @])

(* spendCamels without the check for a non-positive amount *)
spendCamels_AcceptsNonPositive(s, amount) ==
    IF s.counter < amount
    THEN [ok |-> FALSE, s |-> s]
    ELSE [ok |-> TRUE,
          s |-> queueSaveGameState([s EXCEPT !.counter = @ - amount])]

(* spendCamels and spendGold return the flag and the state after the call *)
spendCamels(s, amount) ==
    IF amount <= 0 \/ s.counter < amount
    THEN [ok |-> FALSE, s |-> s]
    ELSE [ok |-> TRUE,
          s |-> queueSaveGameState([s EXCEPT !.counter = @ - amount])]

(* gainGold without the check for a non-positive amount *)
gainGold_AcceptsNonPositive(s, amount) ==
    queueSaveGameState([s EXCEPT !.goldAmount = @ + amount])

gainGold(s, amount) ==
    IF amount <= 0 THEN s
    ELSE queueSaveGameState([s EXCEPT !.goldAmount = @ + amount])

(* spendGold that refuses a cost equal to the balance *)
spendGold_RefusesExactBalance(s, cost) ==
    IF cost <= 0 \/ s.goldAmount <= cost
    THEN [ok |-> FALSE, s |-> s]
    ELSE [ok |-> TRUE,
          s |-> queueSaveGameState([s EXCEPT !.goldAmount = @ - cost])]

(* spendGold without the balance check *)
spendGold_NoBalanceCheck(s, cost) ==
    IF cost <= 0
    THEN [ok |-> FALSE, s |-> s]
    ELSE [ok |-> TRUE,
          s |-> queueSaveGameState([s EXCEPT !.goldAmount = @ - cost])]

spendGold(s, cost) ==
    IF cost <= 0 \/ s.goldAmount < cost
    THEN [ok |-> FALSE, s |-> s]
    ELSE [ok |-> TRUE,
          s |-> queueSaveGameState([s EXCEPT !.goldAmount = @ - cost])]

----------------------------------------------------------------------------
(* The five resolvers.  Each returns its changed flag and the state after it *)

(* Variant: every call adds one second's growth, whatever time has elapsed *)
applyGrasslandGrowth_IgnoresElapsed(s, deltaSeconds) ==
    IF s.grasslandCount = 0
    THEN [changed |-> FALSE, s |-> s]
    ELSE [changed |-> TRUE,
          s |-> updateStatusMessage(
                    [s EXCEPT !.grassAmount = @ + s.grasslandCount],
                    Msg("Grasslands grew", s.grasslandCount, 0))]

applyGrasslandGrowth(s, deltaSeconds) ==
    IF s.grasslandCount = 0 \/ deltaSeconds <= 0
    THEN [changed |-> FALSE, s |-> s]
    ELSE LET grassGained == s.grasslandCount * deltaSeconds
         IN IF grassGained <= 0
            THEN [changed |-> FALSE, s |-> s]
            ELSE [changed |-> TRUE,
                  s |-> updateStatusMessage(
                            [s EXCEPT !.grassAmount = @ + grassGained],
                            Msg("Grasslands grew", grassGained, 0))]

(* processFarmProduction that drops a visual camel for every camel bred *)
processFarmProduction_SpawnsVisuals(s, deltaSeconds) ==
    LET t == [s EXCEPT !.farmProductionTimer = @ + deltaSeconds]
        cycles == FloorDiv(t.farmProductionTimer, FarmCycle)
        camelsProduced == Min(cycles * t.farmCount, t.grassAmount)
        capped == [t EXCEPT !.farmProductionTimer = Min(@, FarmCycle)]
    IN IF t.farmCount = 0 \/ t.farmProductionTimer < FarmCycle
       THEN [changed |-> FALSE, s |-> t]
       ELSE IF t.grassAmount <= 0
       THEN [changed |-> FALSE, s |-> capped]
       ELSE [changed |-> TRUE,
             s |-> updateStatusMessage(
                       gainCamels(
                           [t EXCEPT !.grassAmount = @ - camelsProduced,
                                     !.farmProductionTimer = @ - cycles * FarmCycle],
                           camelsProduced, TRUE),
                       Msg("Farms bred", camelsProduced, 0))]

(* processFarmProduction that takes off the timer only the cycles whose
   camels the grass paid for *)
processFarmProduction_KeepsUnpaidCycles(s, deltaSeconds) ==
    LET t == [s EXCEPT !.farmProductionTimer = @ + deltaSeconds]
        cycles == FloorDiv(t.farmProductionTimer, FarmCycle)
        potentialCamels == cycles * t.farmCount
        camelsProduced == Min(potentialCamels, t.grassAmount)
        paidCycles == FloorDiv(camelsProduced + t.farmCount - 1, t.farmCount)
        capped == [t EXCEPT !.farmProductionTimer = Min(@, FarmCycle)]
    IN IF t.farmCount = 0 \/ t.farmProductionTimer < FarmCycle
       THEN [changed |-> FALSE, s |-> t]
       ELSE IF t.grassAmount <= 0
       THEN [changed |-> FALSE, s |-> capped]
       ELSE [changed |-> TRUE,
             s |-> updateStatusMessage(
                       gainCamels(
                           [t EXCEPT !.grassAmount = @ - camelsProduced,
                                     !.farmProductionTimer = @ - paidCycles * FarmCycle],
                           camelsProduced, FALSE),
                       Msg("Farms bred", camelsProduced, 0))]

processFarmProduction(s, deltaSeconds) ==
    LET t == [s EXCEPT !.farmProductionTimer = @ + deltaSeconds]
        cycles == FloorDiv(t.farmProductionTimer, FarmCycle)
        potentialCamels == cycles * t.farmCount
        camelsProduced == Min(potentialCamels, t.grassAmount)
        capped == [t EXCEPT !.farmProductionTimer = Min(@, FarmCycle)]
    IN IF t.farmCount = 0 \/ t.farmProductionTimer < FarmCycle
       THEN [changed |-> FALSE, s |-> t]
       ELSE IF cycles = 0
       THEN [changed |-> FALSE, s |-> t]
       ELSE IF t.grassAmount <= 0
       THEN [changed |-> FALSE, s |-> capped]
       ELSE IF camelsProduced <= 0
       THEN [changed |-> FALSE, s |-> capped]
       ELSE [changed |-> TRUE,
             s |-> updateStatusMessage(
                       gainCamels(
                           [t EXCEPT !.grassAmount = @ - camelsProduced,
                                     !.farmProductionTimer = @ - cycles * FarmCycle],
                           camelsProduced, FALSE),
                       Msg("Farms bred", camelsProduced, 0))]

(* processGrassConsumption that keeps the cycles on the timer when the herd
   found nothing to graze *)
processGrassConsumption_KeepsTimerWhenDry(s, deltaSeconds) ==
    LET t == [s EXCEPT !.grassConsumptionTimer = @ + deltaSeconds]
        cycles == FloorDiv(t.grassConsumptionTimer, GrassCycle)
        grassNeeded == t.counter * cycles
        grassUsed == Min(grassNeeded, t.grassAmount)
        u == [t EXCEPT !.grassAmount = @ - grassUsed,
                       !.grassConsumptionTimer =
                           IF grassUsed > 0 THEN @ - cycles * GrassCycle ELSE @]
    IN IF t.grassConsumptionTimer < GrassCycle \/ t.counter <= 0
       THEN [changed |-> FALSE, s |-> t]
       ELSE [changed |-> grassUsed > 0,
             s |-> IF grassUsed < grassNeeded
                   THEN updateStatusMessage(u, Msg("Grass has run dry", 0, 0))
                   ELSE updateStatusMessage(u, Msg("Camels grazed", grassUsed, 0))]

(* processGrassConsumption that forgets to take the cycles off the timer *)
processGrassConsumption_KeepsTimer(s, deltaSeconds) ==
    LET t == [s EXCEPT !.grassConsumptionTimer = @ + deltaSeconds]
        cycles == FloorDiv(t.grassConsumptionTimer, GrassCycle)
        grassNeeded == t.counter * cycles
        grassUsed == Min(grassNeeded, t.grassAmount)
        u == [t EXCEPT !.grassAmount = @ - grassUsed]
    IN IF t.grassConsumptionTimer < GrassCycle \/ t.counter <= 0
       THEN [changed |-> FALSE, s |-> t]
       ELSE [changed |-> grassUsed > 0,
             s |-> IF grassUsed < grassNeeded
                   THEN updateStatusMessage(u, Msg("Grass has run dry", 0, 0))
                   ELSE updateStatusMessage(u, Msg("Camels grazed", grassUsed, 0))]

(* processGrassConsumption that reports a change for every processed cycle *)
processGrassConsumption_ReportsEveryCycle(s, deltaSeconds) ==
    LET t == [s EXCEPT !.grassConsumptionTimer = @ + deltaSeconds]
        cycles == FloorDiv(t.grassConsumptionTimer, GrassCycle)
        grassNeeded == t.counter * cycles
        grassUsed == Min(grassNeeded, t.grassAmount)
        u == [t EXCEPT !.grassAmount = @ - grassUsed,
                       !.grassConsumptionTimer = @ - cycles * GrassCycle]
    IN IF t.grassConsumptionTimer < GrassCycle \/ t.counter <= 0
       THEN [changed |-> FALSE, s |-> t]
       ELSE [changed |-> TRUE,
             s |-> IF grassUsed < grassNeeded
                   THEN updateStatusMessage(u, Msg("Grass has run dry", 0, 0))
                   ELSE updateStatusMessage(u, Msg("Camels grazed", grassUsed, 0))]

processGrassConsumption(s, deltaSeconds) ==
    LET t == [s EXCEPT !.grassConsumptionTimer = @ + deltaSeconds]
        cycles == FloorDiv(t.grassConsumptionTimer, GrassCycle)
        grassNeeded == t.counter * cycles
        grassUsed == Min(grassNeeded, t.grassAmount)
        u == [t EXCEPT !.grassAmount = @ - grassUsed,
                       !.grassConsumptionTimer = @ - cycles * GrassCycle]
    IN IF t.grassConsumptionTimer < GrassCycle \/ t.counter <= 0
       THEN [changed |-> FALSE, s |-> t]
       ELSE IF cycles = 0
       THEN [changed |-> FALSE, s |-> t]
       ELSE [changed |-> grassUsed > 0,
             s |-> IF grassUsed < grassNeeded
                   THEN updateStatusMessage(u, Msg("Grass has run dry", 0, 0))
                   ELSE updateStatusMessage(u, Msg("Camels grazed", grassUsed, 0))]

(* One roll: Math.floor(baseGold * (1 + nomadTokens * 0.01)), baseGold in    *)
(* 14..21, in exact arithmetic (the source multiplies in floating point; the *)
(* two agree for every nomadTokens below 720, as in every payout here).      *)
RollValues(tokens) ==
    { FloorDiv(baseGold * (100 + tokens), 100) :
        baseGold \in MinRoll .. (MinRoll + RollSpan - 1) }

(* The totals that n independent rolls can sum to *)
RECURSIVE HaulTotals(_, _)
HaulTotals(n, tokens) ==
    IF n <= 0 THEN {0}
    ELSE { a + b : a \in HaulTotals(n - 1, tokens), b \in RollValues(tokens) }

(* processCaravanGold that takes the pending cycles off the timer also when
   there is no caravan to pay out *)
processCaravanGold_ConsumesWithoutCaravans(s, deltaSeconds) ==
    LET t == [s EXCEPT !.caravanGoldTimer = @ + deltaSeconds]
        cycles == FloorDiv(t.caravanGoldTimer, CaravanCycle)
        u == [t EXCEPT !.caravanGoldTimer = @ - cycles * CaravanCycle]
    IN IF t.caravanCount = 0
       THEN {[changed |-> FALSE, s |-> u]}
       ELSE IF t.caravanGoldTimer < CaravanCycle
       THEN {[changed |-> FALSE, s |-> t]}
       ELSE { [changed |-> TRUE,
               s |-> updateStatusMessage(gainGold(u, totalGold),
                                         Msg("Caravans hauled", totalGold, 0))] :
              totalGold \in HaulTotals(t.caravanCount * cycles, t.nomadTokens) }

(* processCaravanGold that pays every caravan the lowest roll *)
processCaravanGold_AlwaysLowestRoll(s, deltaSeconds) ==
    LET t == [s EXCEPT !.caravanGoldTimer = @ + deltaSeconds]
        cycles == FloorDiv(t.caravanGoldTimer, CaravanCycle)
        u == [t EXCEPT !.caravanGoldTimer = @ - cycles * CaravanCycle]
        totalGold == t.caravanCount * cycles * MinRoll
    IN IF t.caravanCount = 0 \/ t.caravanGoldTimer < CaravanCycle
       THEN {[changed |-> FALSE, s |-> t]}
       ELSE {[changed |-> TRUE,
              s |-> updateStatusMessage(gainGold(u, totalGold),
                                        Msg("Caravans hauled", totalGold, 0))]}

processCaravanGold(s, deltaSeconds) ==
    LET t == [s EXCEPT !.caravanGoldTimer = @ + deltaSeconds]
        cycles == FloorDiv(t.caravanGoldTimer, CaravanCycle)
        u == [t EXCEPT !.caravanGoldTimer = @ - cycles * CaravanCycle]
    IN IF t.caravanCount = 0 \/ t.caravanGoldTimer < CaravanCycle
       THEN {[changed |-> FALSE, s |-> t]}
       ELSE IF cycles = 0
       THEN {[changed |-> FALSE, s |-> t]}
       ELSE { IF totalGold <= 0
              THEN [changed |-> FALSE, s |-> u]
              ELSE [changed |-> TRUE,
                    s |-> updateStatusMessage(gainGold(u, totalGold),
                                              Msg("Caravans hauled", totalGold, 0))] :
              totalGold \in HaulTotals(t.caravanCount * cycles, t.nomadTokens) }

(* Math.floor(goldAmount * (0.1 + Math.random() * 0.1)).  Math.random() is
   below 1, but the factor is rounded to a double: for the largest double
   below 1 the sum 0.1 + 0.09999999999999999 is 0.2 itself, so the factor
   ranges over 0.1 .. 0.2 with both ends included *)
StolenAmounts(gold) ==
    IF gold <= 0 THEN {0}
    ELSE { Min(gold, k) : k \in FloorDiv(gold, 10) .. FloorDiv(gold, 5) }

(* An attacking cycle that takes two caravans at once *)
BanditAttack_LosesTwoCaravans(s) ==
    LET lossRolls == IF s.caravanCount > 0
                     THEN (IF s.guardCampCount > 0 THEN {TRUE, FALSE} ELSE {TRUE})
                     ELSE {FALSE}
    IN UNION {
         LET t == IF caravanLost THEN [s EXCEPT !.caravanCount = @ - 2] ELSE s
         IN { LET u == IF goldStolen > 0
                       THEN [t EXCEPT !.goldAmount = @ - goldStolen] ELSE t
              IN [changed |-> caravanLost \/ goldStolen > 0,
                  s |-> IF caravanLost \/ goldStolen > 0
                        THEN updateStatusMessage(u,
                                 Msg("Bandits struck", IF caravanLost THEN 1 ELSE 0,
                                     goldStolen))
                        ELSE updateStatusMessage(u, Msg("Bandits were spotted", 0, 0))] :
              goldStolen \in StolenAmounts(t.goldAmount) } :
         caravanLost \in lossRolls }

(* An attacking cycle in which a guard camp always saves the caravan *)
BanditAttack_GuardsAlwaysHold(s) ==
    LET lossRolls == IF s.caravanCount > 0 /\ s.guardCampCount = 0
                     THEN {TRUE} ELSE {FALSE}
    IN UNION {
         LET t == IF caravanLost THEN [s EXCEPT !.caravanCount = @ - 1] ELSE s
         IN { LET u == IF goldStolen > 0
                       THEN [t EXCEPT !.goldAmount = @ - goldStolen] ELSE t
              IN [changed |-> caravanLost \/ goldStolen > 0,
                  s |-> IF caravanLost \/ goldStolen > 0
                        THEN updateStatusMessage(u,
                                 Msg("Bandits struck", IF caravanLost THEN 1 ELSE 0,
                                     goldStolen))
                        ELSE updateStatusMessage(u, Msg("Bandits were spotted", 0, 0))] :
              goldStolen \in StolenAmounts(t.goldAmount) } :
         caravanLost \in lossRolls }

(* One attacking cycle of the raid loop, from state s *)
BanditAttack(s) ==
    LET lossRolls == IF s.caravanCount > 0
                     THEN (IF s.guardCampCount > 0 THEN {TRUE, FALSE} ELSE {TRUE})
                     ELSE {FALSE}
    IN UNION {
         LET t == IF caravanLost THEN [s EXCEPT !.caravanCount = @ - 1] ELSE s
         IN { LET u == IF goldStolen > 0
                       THEN [t EXCEPT !.goldAmount = @ - goldStolen] ELSE t
              IN [changed |-> caravanLost \/ goldStolen > 0,
                  s |-> IF caravanLost \/ goldStolen > 0
                        THEN updateStatusMessage(u,
                                 Msg("Bandits struck", IF caravanLost THEN 1 ELSE 0,
                                     goldStolen))
                        ELSE updateStatusMessage(u, Msg("Bandits were spotted", 0, 0))] :
              goldStolen \in StolenAmounts(t.goldAmount) } :
         caravanLost \in lossRolls }

(* The raid loop: cycles iterations, each peaceful or attacking *)
RECURSIVE BanditLoop(_, _)
BanditLoop(r, cycles) ==
    IF cycles <= 0 THEN {r}
    ELSE UNION { BanditLoop(n, cycles - 1) :
                 n \in {r} \cup { [changed |-> r.changed \/ a.changed, s |-> a.s] :
                                  a \in BanditAttack(r.s) } }

(* processBanditRaid that also says "spotted" for every cycle without attack *)
processBanditRaid_PeacefulCycleSpeaks(s, deltaSeconds) ==
    LET t == [s EXCEPT !.banditTimer = @ + deltaSeconds]
        cycles == FloorDiv(t.banditTimer, BanditCycle)
        u == [t EXCEPT !.banditTimer = @ - cycles * BanditCycle]
    IN IF t.banditTimer < BanditCycle
       THEN {[changed |-> FALSE, s |-> t]}
       ELSE { [r EXCEPT !.s.emitted =
                   @ \o [i \in 1 .. (cycles - (Len(@) - Len(u.emitted))) |->
                            Msg("Bandits were spotted", 0, 0)]] :
              r \in BanditLoop([changed |-> FALSE, s |-> u], cycles) }

(* processBanditRaid that, like the caravan payout, lets the timer run on
   while there are no caravans to raid *)
processBanditRaid_WaitsForCaravans(s, deltaSeconds) ==
    LET t == [s EXCEPT !.banditTimer = @ + deltaSeconds]
        cycles == FloorDiv(t.banditTimer, BanditCycle)
        u == [t EXCEPT !.banditTimer = @ - cycles * BanditCycle]
    IN IF t.caravanCount = 0 \/ t.banditTimer < BanditCycle
       THEN {[changed |-> FALSE, s |-> t]}
       ELSE BanditLoop([changed |-> FALSE, s |-> u], cycles)

processBanditRaid(s, deltaSeconds) ==
    LET t == [s EXCEPT !.banditTimer = @ + deltaSeconds]
        cycles == FloorDiv(t.banditTimer, BanditCycle)
        u == [t EXCEPT !.banditTimer = @ - cycles * BanditCycle]
    IN IF t.banditTimer < BanditCycle
       THEN {[changed |-> FALSE, s |-> t]}
       ELSE BanditLoop([changed |-> FALSE, s |-> u], cycles)

(* The refreshes that end a tick, given the five flags and the state after   *)
(* the last resolver that ran                                                *)
EndTick(s, fl) ==
    LET r == [s EXCEPT !.flags = fl]
    IN updateNomadButtonState(
           IF \E i \in 1 .. 5 : fl[i] THEN queueSaveGameState(r) ELSE r)

(* A tick that stops calling resolvers at the first one that reports a change *)
runResourceTick_StopsAtFirstChange(s, deltaSeconds) ==
    LET g == applyGrasslandGrowth(s, deltaSeconds)
        f == processFarmProduction(g.s, deltaSeconds)
        c == processGrassConsumption(f.s, deltaSeconds)
    IN IF g.changed THEN {EndTick(g.s, <<TRUE, FALSE, FALSE, FALSE, FALSE>>)}
       ELSE IF f.changed THEN {EndTick(f.s, <<FALSE, TRUE, FALSE, FALSE, FALSE>>)}
       ELSE IF c.changed THEN {EndTick(c.s, <<FALSE, FALSE, TRUE, FALSE, FALSE>>)}
       ELSE UNION {
              IF h.changed THEN {EndTick(h.s, <<FALSE, FALSE, FALSE, TRUE, FALSE>>)}
              ELSE { EndTick(b.s, <<FALSE, FALSE, FALSE, FALSE, b.changed>>) :
                     b \in processBanditRaid(h.s, deltaSeconds) } :
              h \in processCaravanGold(c.s, deltaSeconds) }

(* A tick that runs farm production before grassland growth *)
runResourceTick_FarmBeforeGrowth(s, deltaSeconds) ==
    LET f == processFarmProduction(s, deltaSeconds)
        g == applyGrasslandGrowth(f.s, deltaSeconds)
        c == processGrassConsumption(g.s, deltaSeconds)
    IN UNION {
         { EndTick(b.s, <<g.changed, f.changed, c.changed, h.changed, b.changed>>) :
           b \in processBanditRaid(h.s, deltaSeconds) } :
         h \in processCaravanGold(c.s, deltaSeconds) }

(* A tick that runs the bandit raid before the caravan payout *)
runResourceTick_RaidBeforePayout(s, deltaSeconds) ==
    LET g == applyGrasslandGrowth(s, deltaSeconds)
        f == processFarmProduction(g.s, deltaSeconds)
        c == processGrassConsumption(f.s, deltaSeconds)
    IN UNION {
         { EndTick(h.s, <<g.changed, f.changed, c.changed, h.changed, b.changed>>) :
           h \in processCaravanGold(b.s, deltaSeconds) } :
         b \in processBanditRaid(c.s, deltaSeconds) }

(* One resource tick: the five resolvers in order, then the refreshes *)
runResourceTick(s, deltaSeconds) ==
    LET g == applyGrasslandGrowth(s, deltaSeconds)
        f == processFarmProduction(g.s, deltaSeconds)
        c == processGrassConsumption(f.s, deltaSeconds)
    IN UNION {
         { LET any == g.changed \/ f.changed \/ c.changed \/ h.changed \/ b.changed
               r == [b.s EXCEPT !.flags = <<g.changed, f.changed, c.changed,
                                            h.changed, b.changed>>]
           IN updateNomadButtonState(
                  IF any THEN queueSaveGameState(r) ELSE r) :
           b \in processBanditRaid(h.s, deltaSeconds) } :
         h \in processCaravanGold(c.s, deltaSeconds) }

----------------------------------------------------------------------------
(* Purchase handlers, caravan formation, user spawn *)

handleFarmPurchase(s) ==
    LET r == spendGold(s, FarmCost)
    IN IF ~r.ok
       THEN updateStatusMessage(s, Msg("Need more gold for a farm", 0, 0))
       ELSE queueSaveGameState(
                updateStatusMessage([r.s EXCEPT !.farmCount = @ + 1],
                                    Msg("New farm built", 0, 0)))

handleGrasslandPurchase(s) ==
    LET r == spendGold(s, GrasslandCost)
    IN IF ~r.ok
       THEN updateStatusMessage(s, Msg("Need more gold for a grassland", 0, 0))
       ELSE queueSaveGameState(
                updateStatusMessage([r.s EXCEPT !.grasslandCount = @ + 1],
                                    Msg("Fresh grassland cultivated", 0, 0)))

handleGuardPurchase(s) ==
    LET r == spendGold(s, GuardCost)
    IN IF ~r.ok
       THEN updateStatusMessage(s, Msg("Need more gold for guards", 0, 0))
       ELSE queueSaveGameState(
                updateStatusMessage([r.s EXCEPT !.guardCampCount = @ + 1],
                                    Msg("Guard camp established", 0, 0)))

(* handleCaravanClick that adds the caravan without spending the camels *)
handleCaravanClick_FreeCaravan(s) ==
    IF s.counter < CaravanCamels THEN s
    ELSE queueSaveGameState(
             updateStatusMessage(
                 updateNomadButtonState([s EXCEPT !.caravanCount = @ + 1]),
                 Msg("Caravan assembled", 0, 0)))

handleCaravanClick(s) ==
    IF s.counter < CaravanCamels THEN s
    ELSE LET r == spendCamels(s, CaravanCamels)
         IN IF ~r.ok THEN s
            ELSE queueSaveGameState(
                     updateStatusMessage(
                         updateNomadButtonState([r.s EXCEPT !.caravanCount = @ + 1]),
                         Msg("Caravan assembled", 0, 0)))

(* startGame -> spawnCamel: refused while the camel image is still loading *)
(* spawnCamel that adds the camel without its visual entity *)
spawnCamel_NoVisual(s, imageComplete) ==
    IF ~imageComplete THEN s ELSE gainCamels(s, 1, FALSE)

spawnCamel(s, imageComplete) ==
    IF ~imageComplete THEN s ELSE gainCamels(s, 1, TRUE)

----------------------------------------------------------------------------
(* Prestige *)

(* resetResourcesForNomad that leaves the caravans standing *)
resetResourcesForNomad_KeepsCaravans(s) ==
    [s EXCEPT !.counter = 0, !.goldAmount = 0, !.grassAmount = 0,
              !.farmCount = 0, !.grasslandCount = 0, !.guardCampCount = 0,
              !.caravanGoldTimer = 0,
              !.farmProductionTimer = 0, !.grassConsumptionTimer = 0,
              !.banditTimer = 0, !.camels = 0]

(* resetResourcesForNomad that wipes the tokens with everything else *)
resetResourcesForNomad_ClearsTokens(s) ==
    [s EXCEPT !.counter = 0, !.goldAmount = 0, !.grassAmount = 0,
              !.farmCount = 0, !.grasslandCount = 0, !.guardCampCount = 0,
              !.caravanCount = 0, !.caravanGoldTimer = 0,
              !.farmProductionTimer = 0, !.grassConsumptionTimer = 0,
              !.banditTimer = 0, !.camels = 0, !.nomadTokens = 0]

resetResourcesForNomad(s) ==
    [s EXCEPT !.counter = 0, !.goldAmount = 0, !.grassAmount = 0,
              !.farmCount = 0, !.grasslandCount = 0, !.guardCampCount = 0,
              !.caravanCount = 0, !.caravanGoldTimer = 0,
              !.farmProductionTimer = 0, !.grassConsumptionTimer = 0,
              !.banditTimer = 0, !.camels = 0]

earnedTokens(s) ==
    Max(1, FloorDiv(s.counter, NomadCamelThreshold)
           + FloorDiv(s.caravanCount, NomadCaravanThreshold))

handleNomadMigration(s) ==
    IF s.nomadDisabled THEN s
    ELSE queueSaveGameState(
             updateStatusMessage(
                 resetResourcesForNomad([s EXCEPT !.nomadTokens = @ + earnedTokens(s)]),
                 Msg("Nomads set out", earnedTokens(s), 0)))

----------------------------------------------------------------------------
(* Persistence.  A stored JSON value is <<"number", n>> for a finite number  *)
(* and <<"other", 0>> for anything else (null, a string, a missing field).   *)
(* What is under STORAGE_KEY is a record: kind "absent" (no item, or the     *)
(* empty string), "json" (an object whose fields are in data), "garbage"     *)
(* (JSON.parse throws), "null" (parses to null: reading data.counter throws) *)
(* or "unreadable" (localStorage.getItem throws).                            *)

NumberValue(n) == <<"number", n>>

OtherValue == <<"other", 0>>

isFinite(v) == v[1] = "number"

(* JSON.stringify(payload): the payload that leaves out the four timers *)
payload_WithoutTimers(s) ==
    [f \in SnapshotFields |-> IF f \in TimerFields THEN OtherValue ELSE NumberValue(s[f])]

(* JSON.stringify(payload): every number of the program is finite, and is    *)
(* written as a number under the name of its global                          *)
payload(s) == [f \in SnapshotFields |-> NumberValue(s[f])]

AbsentStore == [kind |-> "absent", data |-> payload(Defaults)]

JsonStore(data) == [kind |-> "json", data |-> data]

BrokenStore(kind) == [kind |-> kind, data |-> payload(Defaults)]

Throws(stored) == stored.kind \in {"garbage", "null", "unreadable"}

SaveFailed == "Failed to save game state:"

LoadFailed == "Failed to load game state:"

(* saveGameState without the try/catch around setItem *)
saveGameState_NoCatch(s, setItemThrows) ==
    IF setItemThrows
    THEN [s EXCEPT !.uncaught = TRUE]
    ELSE [s EXCEPT !.saveThrottleTimeout = FALSE]

(* The live state is untouched; a throwing setItem is caught and logged; the *)
(* pending handle is cleared either way                                      *)
saveGameState(s, setItemThrows) ==
    IF setItemThrows
    THEN [s EXCEPT !.logged = SaveFailed, !.saveThrottleTimeout = FALSE]
    ELSE [s EXCEPT !.saveThrottleTimeout = FALSE]

(* loadGameState that rejects the whole snapshot when one field is not finite *)
loadGameState_AllOrNothing(s, stored) ==
    IF stored.kind = "absent" THEN s
    ELSE IF Throws(stored) THEN [s EXCEPT !.logged = LoadFailed]
    ELSE LET data == stored.data
             ok == \A f \in SnapshotFields : isFinite(data[f])
         IN IF ~ok THEN s
            ELSE [f \in DOMAIN s |-> IF f \in SnapshotFields THEN data[f][2] ELSE s[f]]

(* loadGameState without the try/catch *)
loadGameState_NoCatch(s, stored) ==
    IF stored.kind = "absent" THEN s
    ELSE IF Throws(stored) THEN [s EXCEPT !.uncaught = TRUE]
    ELSE [f \in DOMAIN s |->
            IF f \in SnapshotFields /\ isFinite(stored.data[f])
            THEN stored.data[f][2] ELSE s[f]]

loadGameState(s, stored) ==
    IF stored.kind = "absent" THEN s
    ELSE IF Throws(stored) THEN [s EXCEPT !.logged = LoadFailed]
    ELSE LET data == stored.data
             keep(f) == IF isFinite(data[f]) THEN data[f][2] ELSE s[f]
             zero(f) == IF isFinite(data[f]) THEN data[f][2] ELSE 0
         IN [s EXCEPT !.counter = keep("counter"),
                      !.goldAmount = keep("goldAmount"),
                      !.caravanCount = keep("caravanCount"),
                      !.farmCount = keep("farmCount"),
                      !.grassAmount = keep("grassAmount"),
                      !.grasslandCount = keep("grasslandCount"),
                      !.guardCampCount = keep("guardCampCount"),
                      !.nomadTokens = keep("nomadTokens"),
                      !.caravanGoldTimer = zero("caravanGoldTimer"),
                      !.farmProductionTimer = zero("farmProductionTimer"),
                      !.grassConsumptionTimer = zero("grassConsumptionTimer"),
                      !.banditTimer = zero("banditTimer")]

(* initializeIncrementalUI adds 'disabled' to the new button; then the state *)
(* of the button is computed from the hydrated Ledger                        *)
setupIncrementalLoopSystem(s) ==
    updateNomadButtonState([s EXCEPT !.nomadDisabled = TRUE])

(* An exception that escapes loadGameState ends init before the loop is set up *)
init(stored) ==
    LET loaded == loadGameState(Defaults, stored)
    IN IF loaded.uncaught THEN loaded ELSE setupIncrementalLoopSystem(loaded)

----------------------------------------------------------------------------
(* Sessions.  init() hydrates from what an earlier session of the program    *)
(* saved, so a session starts from the all-zero defaults or from one of the  *)
(* snapshots below, each the payload of a state an earlier session reaches:  *)
(*   Herd:    999 spawns before the first tick.                              *)
(*   Convoy:  three migrations, then 10,000 spawns and 99 caravan formations *)
(*            before the next tick.                                          *)
(*   Trader:  100 spawns, one caravan, 120 ticks with two payouts of 20 and  *)
(*            peaceful raids, 4 spawns, 58 more ticks.                       *)
(*   Rich:    100 spawns, one caravan, 601 ticks with ten payouts summing to *)
(*            175 and peaceful raids.                                        *)

Session(c, g, car, tok, cgT, fT, grT, bT) ==
    [Defaults EXCEPT !.counter = c, !.goldAmount = g, !.caravanCount = car,
                     !.nomadTokens = tok,
                     !.caravanGoldTimer = cgT, !.farmProductionTimer = fT,
                     !.grassConsumptionTimer = grT, !.banditTimer = bT]

Herd == Session(999, 0, 0, 0, 0, 0, 0, 0)

Convoy == Session(100, 0, 99, 3, 0, 0, 0, 0)

Trader == Session(4, 40, 1, 0, 58, 178, 8, 58)

Rich == Session(0, 175, 1, 0, 1, 601, 601, 1)

SavedSessions == {Herd, Convoy, Trader, Rich}

----------------------------------------------------------------------------
(* The state machine *)

Holds(s) ==
    /\ counter = s.counter
    /\ goldAmount = s.goldAmount
    /\ caravanCount = s.caravanCount
    /\ farmCount = s.farmCount
    /\ grassAmount = s.grassAmount
    /\ grasslandCount = s.grasslandCount
    /\ guardCampCount = s.guardCampCount
    /\ nomadTokens = s.nomadTokens
    /\ caravanGoldTimer = s.caravanGoldTimer
    /\ farmProductionTimer = s.farmProductionTimer
    /\ grassConsumptionTimer = s.grassConsumptionTimer
    /\ banditTimer = s.banditTimer
    /\ camels = s.camels
    /\ nomadDisabled = s.nomadDisabled
    /\ saveThrottleTimeout = s.saveThrottleTimeout
    /\ pendingSaves = s.pendingSaves
    /\ lastStatusText = s.lastStatusText
    /\ lastStatusUpdateTime = s.lastStatusUpdateTime
    /\ emitted = s.emitted
    /\ queued = s.queued
    /\ flags = s.flags
    /\ logged = s.logged
    /\ uncaught = s.uncaught

Commit(s) ==
    /\ counter' = s.counter
    /\ goldAmount' = s.goldAmount
    /\ caravanCount' = s.caravanCount
    /\ farmCount' = s.farmCount
    /\ grassAmount' = s.grassAmount
    /\ grasslandCount' = s.grasslandCount
    /\ guardCampCount' = s.guardCampCount
    /\ nomadTokens' = s.nomadTokens
    /\ caravanGoldTimer' = s.caravanGoldTimer
    /\ farmProductionTimer' = s.farmProductionTimer
    /\ grassConsumptionTimer' = s.grassConsumptionTimer
    /\ banditTimer' = s.banditTimer
    /\ camels' = s.camels
    /\ nomadDisabled' = s.nomadDisabled
    /\ saveThrottleTimeout' = s.saveThrottleTimeout
    /\ pendingSaves' = s.pendingSaves
    /\ lastStatusText' = s.lastStatusText
    /\ lastStatusUpdateTime' = s.lastStatusUpdateTime
    /\ emitted' = s.emitted
    /\ queued' = s.queued
    /\ flags' = s.flags
    /\ logged' = s.logged
    /\ uncaught' = s.uncaught

(* The globals as a handler finds them: nothing emitted, queued or logged yet *)
Begin == [State EXCEPT !.emitted = <<>>, !.queued = 0, !.flags = NoFlags,
                       !.logged = "", !.uncaught = FALSE]

(* The session starts when the page is opened: the interval is set by init *)
ClockStarts ==
    /\ now = 0
    /\ nextTickAt = TickInterval
    /\ dirtySince = 0 - 1

Init ==
    /\ localStorage \in {AbsentStore} \cup { JsonStore(payload(x)) : x \in SavedSessions }
    /\ Holds(init(localStorage))
    /\ ClockStarts
    /\ camelImageComplete = FALSE
    /\ freshStart = (localStorage.kind = "absent")
    /\ lastOp = "init"
    /\ arg = 0
    /\ ret = FALSE
    /\ ticks = 0
    /\ clicks = 0

(* A user event: the handler's result is committed *)
Handle(op, result) ==
    /\ clicks < MaxClicks
    /\ Commit(result)
    /\ lastOp' = op
    /\ clicks' = clicks + 1
    /\ UNCHANGED <<localStorage, camelImageComplete, freshStart, arg, ret, ticks>>

UserEvent(op, result) == Handle(op, result) /\ UNCHANGED clock

Tick ==
    /\ ticks < MaxTicks
    /\ \E s \in runResourceTick(Begin, 1) : Commit(s)
    /\ lastOp' = "runResourceTick"
    /\ ticks' = ticks + 1
    /\ UNCHANGED <<localStorage, camelImageComplete, freshStart, arg, ret, clicks, clock>>

PurchaseFarm == UserEvent("handleFarmPurchase", handleFarmPurchase(Begin))

PurchaseGrassland == UserEvent("handleGrasslandPurchase", handleGrasslandPurchase(Begin))

PurchaseGuardCamp == UserEvent("handleGuardPurchase", handleGuardPurchase(Begin))

FormCaravan == UserEvent("handleCaravanClick", handleCaravanClick(Begin))

SpawnVisualCamel == UserEvent("spawnCamel", spawnCamel(Begin, camelImageComplete))

RequestPrestige == UserEvent("handleNomadMigration", handleNomadMigration(Begin))

(* The globals as the callback of a save timeout finds them: the timeout   *)
(* that fires is the oldest one scheduled, and it is no longer pending       *)
BeginSave == [Begin EXCEPT !.pendingSaves = Tail(@)]

(* A debounce timeout fires: the payload is written.  This specification     *)
(* does not move the clock: the timeout may fire at any moment.              *)
SaveFires ==
    /\ pendingSaves # <<>>
    /\ localStorage' = JsonStore(payload(State))
    /\ Commit(saveGameState(BeginSave, FALSE))
    /\ lastOp' = "saveGameState"
    /\ UNCHANGED <<camelImageComplete, freshStart, arg, ret, ticks, clicks, clock>>

(* A debounce timeout fires and localStorage.setItem throws: caught and logged *)
SaveFails ==
    /\ pendingSaves # <<>>
    /\ Commit(saveGameState(BeginSave, TRUE))
    /\ lastOp' = "saveGameState"
    /\ UNCHANGED <<localStorage, camelImageComplete, freshStart, arg, ret, ticks,
                   clicks, clock>>

(* camelImage finishes loading *)
CamelImageLoaded ==
    /\ ~camelImageComplete
    /\ camelImageComplete' = TRUE
    /\ lastOp' = "camelImage.onload"
    /\ UNCHANGED <<counter, goldAmount, caravanCount, farmCount, grassAmount,
                   grasslandCount, guardCampCount, nomadTokens, caravanGoldTimer,
                   farmProductionTimer, grassConsumptionTimer, banditTimer, camels,
                   nomadDisabled, saveThrottleTimeout, pendingSaves, lastStatusText,
                   lastStatusUpdateTime, emitted, queued, flags, logged, uncaught,
                   localStorage, freshStart, arg, ret, ticks, clicks, clock>>

Next ==
    \/ Tick
    \/ PurchaseFarm
    \/ PurchaseGrassland
    \/ PurchaseGuardCamp
    \/ FormCaravan
    \/ SpawnVisualCamel
    \/ RequestPrestige
    \/ SaveFires
    \/ SaveFails
    \/ CamelImageLoaded

Spec == Init /\ [][Next]_vars

----------------------------------------------------------------------------
(* The same program with its clock.  Time passes in steps of TimeStep, never *)
(* past a timer that is due: the interval of the resource loop fires every   *)
(* TickInterval, a save timeout SaveDelay after it was scheduled.  The store *)
(* works (setItem does not throw).  The page can be closed and opened again: *)
(* the script starts over and init() hydrates from the store.                *)

MaxTime == 2000

TimeStep == 250

(* Bookkeeping of the oldest change the stored snapshot does not have *)
Track ==
    dirtySince' = IF localStorage'.data = payload(State)' THEN 0 - 1
                  ELSE IF dirtySince = 0 - 1 THEN now
                  ELSE dirtySince

(* A user event at the present time *)
Click(op, result) ==
    /\ Handle(op, result)
    /\ UNCHANGED <<now, nextTickAt>>
    /\ Track

InitTimed ==
    /\ localStorage \in {AbsentStore, JsonStore(payload(Rich))}
    /\ Holds(init(localStorage))
    /\ ClockStarts
    /\ camelImageComplete = FALSE
    /\ freshStart = (localStorage.kind = "absent")
    /\ lastOp = "init"
    /\ arg = 0
    /\ ret = FALSE
    /\ ticks = 0
    /\ clicks = 0

NextDue == IF pendingSaves = <<>> THEN nextTickAt ELSE Min(nextTickAt, Head(pendingSaves))

Advance ==
    /\ now < MaxTime
    /\ now < NextDue
    /\ now' = Min(now + TimeStep, NextDue)
    /\ lastOp' = "clock"
    /\ UNCHANGED <<counter, goldAmount, caravanCount, farmCount, grassAmount,
                   grasslandCount, guardCampCount, nomadTokens, caravanGoldTimer,
                   farmProductionTimer, grassConsumptionTimer, banditTimer, camels,
                   nomadDisabled, saveThrottleTimeout, pendingSaves, lastStatusText,
                   lastStatusUpdateTime, emitted, queued, flags, logged, uncaught,
                   localStorage, camelImageComplete, freshStart, arg, ret, ticks,
                   clicks, nextTickAt, dirtySince>>

(* setInterval(() => runResourceTick(1), 1000) *)
IntervalFires ==
    /\ now = nextTickAt
    /\ \E s \in runResourceTick(Begin, 1) : Commit(s)
    /\ lastOp' = "runResourceTick"
    /\ ticks' = ticks + 1
    /\ nextTickAt' = nextTickAt + TickInterval
    /\ UNCHANGED <<localStorage, camelImageComplete, freshStart, arg, ret, clicks, now>>
    /\ Track

(* setTimeout(saveGameState, 500) *)
TimeoutFires ==
    /\ pendingSaves # <<>>
    /\ Head(pendingSaves) = now
    /\ localStorage' = JsonStore(payload(State))
    /\ Commit(saveGameState(BeginSave, FALSE))
    /\ lastOp' = "saveGameState"
    /\ UNCHANGED <<camelImageComplete, freshStart, arg, ret, ticks, clicks, now, nextTickAt>>
    /\ Track

ClickFarm == Click("handleFarmPurchase", handleFarmPurchase(Begin))

ClickSpawn == Click("spawnCamel", spawnCamel(Begin, camelImageComplete))

(* The page is closed and opened again: every timer of the old page is gone, *)
(* the globals are declared afresh and init() runs                           *)
Reload ==
    /\ lastOp # "init"
    /\ Commit([init(localStorage) EXCEPT !.now = now])
    /\ camelImageComplete' = FALSE
    /\ freshStart' = (localStorage.kind = "absent")
    /\ lastOp' = "init"
    /\ nextTickAt' = now + TickInterval
    /\ UNCHANGED <<localStorage, arg, ret, ticks, clicks, now>>
    /\ Track

NextTimed ==
    \/ Advance
    \/ IntervalFires
    \/ TimeoutFires
    \/ ClickFarm
    \/ ClickSpawn
    \/ CamelImageLoaded
    \/ Reload

SpecTimed == InitTimed /\ [][NextTimed]_vars

----------------------------------------------------------------------------
(* Hydration on its own: the script has declared its globals, anything may   *)
(* be under STORAGE_KEY (the store outlives the program and can be edited),  *)
(* and the load event runs init().  The stored objects are the complete      *)
(* snapshot of ones and the empty object, each with up to two fields         *)
(* replaced by a number of -1 .. MaxStored or by a value that is not a       *)
(* finite number.                                                            *)

MaxStored == 2

StoredValues == { NumberValue(n) : n \in (0 - 1) .. MaxStored } \cup {OtherValue}

StoredObjects ==
    { [base EXCEPT ![f1] = v1, ![f2] = v2] :
        base \in { [f \in SnapshotFields |-> NumberValue(1)],
                   [f \in SnapshotFields |-> OtherValue] },
        f1 \in SnapshotFields, f2 \in SnapshotFields,
        v1 \in StoredValues, v2 \in StoredValues }

Stores ==
    { JsonStore(data) : data \in StoredObjects }
        \cup {AbsentStore, BrokenStore("garbage"), BrokenStore("null"),
              BrokenStore("unreadable")}

InitLoad ==
    /\ localStorage \in Stores
    /\ Holds(Defaults)
    /\ ClockStarts
    /\ camelImageComplete = FALSE
    /\ freshStart = (localStorage.kind = "absent")
    /\ lastOp = "script"
    /\ arg = 0
    /\ ret = FALSE
    /\ ticks = 0
    /\ clicks = 0

(* window.addEventListener('load', init) *)
WindowLoads ==
    /\ lastOp = "script"
    /\ Commit(init(localStorage))
    /\ lastOp' = "init"
    /\ UNCHANGED <<localStorage, camelImageComplete, freshStart, arg, ret, ticks,
                   clicks, clock>>

NextLoad == WindowLoads

SpecLoad == InitLoad /\ [][NextLoad]_vars

----------------------------------------------------------------------------
(* The resolvers on their own.  The tick finds the Ledger with up to         *)
(* MaxStock of each structure, camel, caravan and grass and with no gold or  *)
(* a purse of Purse, and each timer at the start or at the last second of    *)
(* its cycle; one resolver, or the whole tick, then runs once.               *)

MaxStock == 1

Purse == 10

TickStates ==
    { [Defaults EXCEPT !.counter = c, !.goldAmount = g, !.caravanCount = car,
                       !.farmCount = fa, !.grassAmount = gr,
                       !.grasslandCount = gl, !.guardCampCount = gu,
                       !.caravanGoldTimer = cgT, !.farmProductionTimer = fT,
                       !.grassConsumptionTimer = grT, !.banditTimer = bT] :
        c \in 0 .. MaxStock, g \in {0, Purse}, car \in 0 .. MaxStock,
        fa \in 0 .. MaxStock, gr \in 0 .. MaxStock, gl \in 0 .. MaxStock,
        gu \in 0 .. MaxStock,
        cgT \in {0, CaravanCycle - 1}, fT \in {0, FarmCycle - 1},
        grT \in {0, GrassCycle - 1}, bT \in {0, BanditCycle - 1} }

(* States in which a resolver has several whole cycles pending, or more to
   share out than the stock allows: farms short of grass and farms with grass
   to spare, herds larger and smaller than the pasture, caravans with and
   without nomad tokens *)
FarmStates ==
    { [Defaults EXCEPT !.farmCount = fa, !.grassAmount = gr,
                       !.farmProductionTimer = fT, !.counter = c] :
        fa \in {0, 1, 3}, gr \in {0, 1, 100}, fT \in 0 .. 2 * FarmCycle - 1,
        c \in {0, 1} }

GrazingStates ==
    { [Defaults EXCEPT !.counter = c, !.grassAmount = gr,
                       !.grassConsumptionTimer = grT] :
        c \in {0, 1, 3}, gr \in {0, 2, 100},
        grT \in {0, GrassCycle - 1, 2 * GrassCycle - 1} }

CaravanStates ==
    { [Defaults EXCEPT !.caravanCount = car, !.nomadTokens = n,
                       !.goldAmount = g, !.caravanGoldTimer = cgT] :
        car \in {0, 1, 2}, n \in {0, 8}, g \in {0, Purse},
        cgT \in {0, CaravanCycle - 1, 2 * CaravanCycle - 1} }

BanditStates ==
    { [Defaults EXCEPT !.caravanCount = car, !.guardCampCount = gu,
                       !.goldAmount = g, !.banditTimer = bT] :
        car \in {0, 1, 2}, gu \in {0, 1, 2}, g \in {0, 4, 5, 100},
        bT \in {0, BanditCycle - 1, 2 * BanditCycle - 1} }

GrowthStates ==
    { [Defaults EXCEPT !.grasslandCount = gl, !.grassAmount = gr] :
        gl \in {0, 10}, gr \in {0, 100} }

ResolverStates ==
    TickStates \cup FarmStates \cup GrazingStates \cup CaravanStates
        \cup BanditStates \cup GrowthStates

(* The elapsed seconds a resolver can be handed: the tick passes 1; the
   guard of applyGrasslandGrowth also provides for 0 and for less *)
MaxElapsed == 2

Elapsed == (0 - 1) .. MaxElapsed

InitResolvers ==
    /\ \E s \in ResolverStates : Holds(updateNomadButtonState(s))
    /\ localStorage = AbsentStore
    /\ ClockStarts
    /\ camelImageComplete = FALSE
    /\ freshStart = FALSE
    /\ lastOp = "init"
    /\ arg = 0
    /\ ret = FALSE
    /\ ticks = 0
    /\ clicks = 0

(* One call of a resolver with deltaSeconds seconds elapsed *)
CallResolver(op, deltaSeconds, r) ==
    /\ lastOp = "init"
    /\ Commit(r.s)
    /\ arg' = deltaSeconds
    /\ ret' = r.changed
    /\ lastOp' = op
    /\ UNCHANGED <<localStorage, camelImageComplete, freshStart, ticks, clicks, clock>>

CallGrasslandGrowth ==
    \E deltaSeconds \in Elapsed :
        CallResolver("applyGrasslandGrowth", deltaSeconds,
                     applyGrasslandGrowth(Begin, deltaSeconds))

CallFarmProduction ==
    CallResolver("processFarmProduction", 1, processFarmProduction(Begin, 1))

CallGrassConsumption ==
    CallResolver("processGrassConsumption", 1, processGrassConsumption(Begin, 1))

CallCaravanGold ==
    \E r \in processCaravanGold(Begin, 1) : CallResolver("processCaravanGold", 1, r)

CallBanditRaid ==
    \E r \in processBanditRaid(Begin, 1) : CallResolver("processBanditRaid", 1, r)

CallTick ==
    /\ lastOp = "init"
    /\ \E s \in runResourceTick(Begin, 1) : Commit(s)
    /\ lastOp' = "runResourceTick"
    /\ ticks' = ticks + 1
    /\ UNCHANGED <<localStorage, camelImageComplete, freshStart, arg, ret, clicks, clock>>

NextResolvers ==
    \/ CallGrasslandGrowth
    \/ CallFarmProduction
    \/ CallGrassConsumption
    \/ CallCaravanGold
    \/ CallBanditRaid
    \/ CallTick

SpecResolvers == InitResolvers /\ [][NextResolvers]_vars

----------------------------------------------------------------------------
(* The Status Notifier on its own: two of the program's messages, handed to  *)
(* updateStatusMessage at any time up to MaxStatusTime                        *)

MaxStatusTime == 5000

StatusStep == 500

StatusMessages ==
    {Msg("Need more gold for a farm", 0, 0), Msg("Need more gold for a grassland", 0, 0)}

InitStatus ==
    /\ Holds(Defaults)
    /\ localStorage = AbsentStore
    /\ ClockStarts
    /\ camelImageComplete = FALSE
    /\ freshStart = TRUE
    /\ lastOp = "init"
    /\ arg = 0
    /\ ret = FALSE
    /\ ticks = 0
    /\ clicks = 0

TimePasses ==
    /\ now < MaxStatusTime
    /\ now' = now + StatusStep
    /\ lastOp' = "clock"
    /\ UNCHANGED <<counter, goldAmount, caravanCount, farmCount, grassAmount,
                   grasslandCount, guardCampCount, nomadTokens, caravanGoldTimer,
                   farmProductionTimer, grassConsumptionTimer, banditTimer, camels,
                   nomadDisabled, saveThrottleTimeout, pendingSaves, lastStatusText,
                   lastStatusUpdateTime, emitted, queued, flags, logged, uncaught,
                   localStorage, camelImageComplete, freshStart, arg, ret, ticks,
                   clicks, nextTickAt, dirtySince>>

CallUpdateStatusMessage ==
    \E message \in StatusMessages :
        /\ Commit(updateStatusMessage(Begin, message))
        /\ lastOp' = "updateStatusMessage"
        /\ UNCHANGED <<localStorage, camelImageComplete, freshStart, arg, ret, ticks,
                       clicks, clock>>

NextStatus == TimePasses \/ CallUpdateStatusMessage

SpecStatus == InitStatus /\ [][NextStatus]_vars

----------------------------------------------------------------------------
(* The spend primitives on their own: any balance, any amount *)

SpendAmounts == (0 - 1) .. (MaxBalance + 1)

InitSpend ==
    /\ \E c \in 0 .. MaxBalance, g \in 0 .. MaxBalance :
          Holds([Defaults EXCEPT !.counter = c, !.goldAmount = g])
    /\ localStorage = AbsentStore
    /\ ClockStarts
    /\ camelImageComplete = FALSE
    /\ freshStart = TRUE
    /\ lastOp = "init"
    /\ arg = 0
    /\ ret = FALSE
    /\ ticks = 0
    /\ clicks = 0

CallSpendGold ==
    \E x \in SpendAmounts :
        LET r == spendGold(Begin, x)
        IN /\ Commit(r.s)
           /\ arg' = x
           /\ ret' = r.ok
           /\ lastOp' = "spendGold"
           /\ UNCHANGED <<localStorage, camelImageComplete, freshStart, ticks, clicks, clock>>

CallSpendCamels ==
    \E x \in SpendAmounts :
        LET r == spendCamels(Begin, x)
        IN /\ Commit(r.s)
           /\ arg' = x
           /\ ret' = r.ok
           /\ lastOp' = "spendCamels"
           /\ UNCHANGED <<localStorage, camelImageComplete, freshStart, ticks, clicks, clock>>

NextSpend == CallSpendGold \/ CallSpendCamels

SpecSpend == InitSpend /\ [][NextSpend]_vars

-----------------------------------------------------------------------------
(* The gain primitives on their own: any balance, any amount, with and
   without a visual camel for each camel gained *)

GainAmounts == (0 - 1) .. MaxBalance

CallGainGold ==
    /\ goldAmount <= MaxBalance
    /\ \E x \in GainAmounts :
          /\ Commit(gainGold(Begin, x))
          /\ arg' = x
    /\ ret' = FALSE
    /\ lastOp' = "gainGold"
    /\ UNCHANGED <<localStorage, camelImageComplete, freshStart, ticks, clicks, clock>>

CallGainCamels ==
    /\ counter <= MaxBalance
    /\ \E x \in GainAmounts, shouldSpawnVisual \in BOOLEAN :
          /\ Commit(gainCamels(Begin, x, shouldSpawnVisual))
          /\ arg' = x
    /\ ret' = FALSE
    /\ lastOp' = "gainCamels"
    /\ UNCHANGED <<localStorage, camelImageComplete, freshStart, ticks, clicks, clock>>

NextGain == CallGainGold \/ CallGainCamels

SpecGain == InitSpend /\ [][NextGain]_vars

-----------------------------------------------------------------------------
(* The tick and the migration statement by statement.  lastOp tells where the
   running handler stands; the handlers are not interrupted, and a timeout
   callback (the debounced saveGameState) is dispatched only between
   handlers, when the call stack is empty *)

MidOperation ==
    {"runResourceTick:applyGrasslandGrowth", "processFarmProduction:grassAmount",
     "runResourceTick:processFarmProduction",
     "runResourceTick:processGrassConsumption",
     "runResourceTick:processCaravanGold", "handleNomadMigration:nomadTokens"}

(* Timeout callbacks that could cut into a running handler *)
CallStackEmpty_TimeoutsPreempt == TRUE

CallStackEmpty == lastOp \notin MidOperation

SnapshotStates ==
    { [Defaults EXCEPT !.counter = c, !.farmCount = fa, !.grassAmount = 1,
                       !.grasslandCount = 1, !.caravanCount = car,
                       !.goldAmount = Purse, !.farmProductionTimer = FarmCycle - 1,
                       !.grassConsumptionTimer = grT, !.caravanGoldTimer = cgT,
                       !.banditTimer = bT] :
        c \in {1, NomadCamelThreshold}, fa \in {0, 1}, car \in {0, 1},
        grT \in {0, GrassCycle - 1}, cgT \in {0, CaravanCycle - 1},
        bT \in {0, BanditCycle - 1} }

InitSnapshot ==
    /\ \E s \in SnapshotStates : Holds(updateNomadButtonState(s))
    /\ localStorage = AbsentStore
    /\ ClockStarts
    /\ camelImageComplete = FALSE
    /\ freshStart = FALSE
    /\ lastOp = "init"
    /\ arg = 0
    /\ ret = FALSE
    /\ ticks = 0
    /\ clicks = 0

(* A statement of a handler has run: the handler stands at position *)
Statement(s, position) ==
    /\ Commit(s)
    /\ lastOp' = position
    /\ UNCHANGED <<localStorage, camelImageComplete, freshStart, ret, clicks, clock>>

(* processFarmProduction as far as the grass: the timer is advanced and
   consumed and the grass is taken, the camels are not yet added *)
FarmConvertsGrass(s, deltaSeconds) ==
    LET t == [s EXCEPT !.farmProductionTimer = @ + deltaSeconds]
        cycles == FloorDiv(t.farmProductionTimer, FarmCycle)
        camelsProduced == Min(cycles * t.farmCount, t.grassAmount)
        capped == [t EXCEPT !.farmProductionTimer = Min(@, FarmCycle)]
    IN IF t.farmCount = 0 \/ t.farmProductionTimer < FarmCycle
       THEN [camelsProduced |-> 0, s |-> t]
       ELSE IF t.grassAmount <= 0
       THEN [camelsProduced |-> 0, s |-> capped]
       ELSE [camelsProduced |-> camelsProduced,
             s |-> [t EXCEPT !.grassAmount = @ - camelsProduced,
                             !.farmProductionTimer = @ - cycles * FarmCycle]]

(* The rest of processFarmProduction: gainCamels and the status message *)
FarmAddsCamels(s, camelsProduced) ==
    IF camelsProduced <= 0 THEN s
    ELSE updateStatusMessage(gainCamels(s, camelsProduced, FALSE),
                             Msg("Farms bred", camelsProduced, 0))

TickGrowth ==
    /\ CallStackEmpty
    /\ ticks < MaxTicks
    /\ LET g == applyGrasslandGrowth(Begin, 1)
       IN Statement([g.s EXCEPT !.flags[1] = g.changed],
                    "runResourceTick:applyGrasslandGrowth")
    /\ ticks' = ticks + 1
    /\ arg' = 0

TickFarmGrass ==
    /\ lastOp = "runResourceTick:applyGrasslandGrowth"
    /\ LET f == FarmConvertsGrass(State, 1)
       IN /\ Statement(f.s, "processFarmProduction:grassAmount")
          /\ arg' = f.camelsProduced
    /\ ticks' = ticks

TickFarmCamels ==
    /\ lastOp = "processFarmProduction:grassAmount"
    /\ Statement([FarmAddsCamels(State, arg) EXCEPT !.flags[2] = arg > 0],
                 "runResourceTick:processFarmProduction")
    /\ UNCHANGED <<arg, ticks>>

TickGrassConsumption ==
    /\ lastOp = "runResourceTick:processFarmProduction"
    /\ LET c == processGrassConsumption(State, 1)
       IN Statement([c.s EXCEPT !.flags[3] = c.changed],
                    "runResourceTick:processGrassConsumption")
    /\ UNCHANGED <<arg, ticks>>

TickCaravanGold ==
    /\ lastOp = "runResourceTick:processGrassConsumption"
    /\ \E h \in processCaravanGold(State, 1) :
          Statement([h.s EXCEPT !.flags[4] = h.changed],
                    "runResourceTick:processCaravanGold")
    /\ UNCHANGED <<arg, ticks>>

(* The last resolver and the refreshes that end the tick *)
TickBanditRaid ==
    /\ lastOp = "runResourceTick:processCaravanGold"
    /\ \E b \in processBanditRaid(State, 1) :
          Statement(EndTick(b.s, [flags EXCEPT ![5] = b.changed]), "runResourceTick")
    /\ UNCHANGED <<arg, ticks>>

(* handleNomadMigration as far as awarding the tokens *)
MigrationAwardsTokens ==
    /\ CallStackEmpty
    /\ clicks < MaxClicks
    /\ ~nomadDisabled
    /\ Commit([Begin EXCEPT !.nomadTokens = @ + earnedTokens(Begin)])
    /\ lastOp' = "handleNomadMigration:nomadTokens"
    /\ arg' = earnedTokens(Begin)
    /\ clicks' = clicks + 1
    /\ UNCHANGED <<localStorage, camelImageComplete, freshStart, ret, ticks, clock>>

(* The rest of handleNomadMigration: the reset, the message and the save request *)
MigrationResets ==
    /\ lastOp = "handleNomadMigration:nomadTokens"
    /\ Statement(queueSaveGameState(
                     updateStatusMessage(resetResourcesForNomad(State),
                                         Msg("Nomads set out", arg, 0))),
                 "handleNomadMigration")
    /\ UNCHANGED <<arg, ticks>>

(* The debounce timeout is dispatched *)
TimeoutDispatched == CallStackEmpty /\ SaveFires

NextSnapshot ==
    \/ TickGrowth
    \/ TickFarmGrass
    \/ TickFarmCamels
    \/ TickGrassConsumption
    \/ TickCaravanGold
    \/ TickBanditRaid
    \/ MigrationAwardsTokens
    \/ MigrationResets
    \/ TimeoutDispatched

SpecSnapshot == InitSnapshot /\ [][NextSnapshot]_vars

----------------------------------------------------------------------------
(* Properties *)

Emitted(kind) == \E i \in 1 .. Len(emitted) : emitted[i][1] = kind

AfterTick == lastOp = "runResourceTick"

(* C1: every Ledger quantity (counter, goldAmount, grassAmount, farmCount,   *)
(* grasslandCount, guardCampCount, caravanCount, nomadTokens) is a           *)
(* non-negative integer in every state that ticks, purchases, caravan        *)
(* formations, spawns and migration requests reach.                          *)
C1_LedgerNonNegative ==
    /\ counter \in Nat
    /\ goldAmount \in Nat
    /\ grassAmount \in Nat
    /\ farmCount \in Nat
    /\ grasslandCount \in Nat
    /\ guardCampCount \in Nat
    /\ caravanCount \in Nat
    /\ nomadTokens \in Nat

(* A raid took the last caravan and some gold, and the Ledger is still valid *)
C1_Witness ==
    /\ AfterTick
    /\ Emitted("Bandits struck")
    /\ caravanCount = 0
    /\ goldAmount > 0

(* C2 as claimed: after every tick each timer is below its cycle length,     *)
(* whatever the counts are (stated here for the sessions that start from     *)
(* the all-zero defaults).                                                   *)
C2_AllTimersWithinCycle ==
    (freshStart /\ AfterTick) =>
        /\ 0 <= farmProductionTimer /\ farmProductionTimer < FarmCycle
        /\ 0 <= grassConsumptionTimer /\ grassConsumptionTimer < GrassCycle
        /\ 0 <= caravanGoldTimer /\ caravanGoldTimer < CaravanCycle
        /\ 0 <= banditTimer /\ banditTimer < BanditCycle

(* C2 amended: after every tick no timer is negative, banditTimer is below   *)
(* 60, grassConsumptionTimer is below 10 when there are camels,              *)
(* caravanGoldTimer is below 60 when there are caravans, and                 *)
(* farmProductionTimer is at most 2 when there are farms (below 2 when       *)
(* grass is left).  With the count at zero the timer only accrues.           *)
C2_TimersWithinCycleWhenActive ==
    AfterTick =>
        /\ 0 <= farmProductionTimer
        /\ 0 <= grassConsumptionTimer
        /\ 0 <= caravanGoldTimer
        /\ 0 <= banditTimer /\ banditTimer < BanditCycle
        /\ counter > 0 => grassConsumptionTimer < GrassCycle
        /\ caravanCount > 0 => caravanGoldTimer < CaravanCycle
        /\ farmCount > 0 => farmProductionTimer <= FarmCycle
        /\ (farmCount > 0 /\ grassAmount > 0) => farmProductionTimer < FarmCycle

(* A tick consumed a grazing cycle, a payout cycle and a raid cycle, and a   *)
(* farm is idle at the cap                                                   *)
C2_Witness ==
    /\ AfterTick
    /\ counter > 0 /\ grassConsumptionTimer = 0
    /\ caravanCount > 0 /\ caravanGoldTimer = 0
    /\ banditTimer = 0
    /\ farmCount > 0 /\ farmProductionTimer = FarmCycle

----------------------------------------------------------------------------
(* Steps *)

LedgerUnchanged ==
    UNCHANGED <<counter, goldAmount, grassAmount, farmCount, grasslandCount,
                guardCampCount, caravanCount, nomadTokens>>

TimersUnchanged ==
    UNCHANGED <<farmProductionTimer, grassConsumptionTimer, caravanGoldTimer,
                banditTimer>>

MigrationRequest == lastOp' = "handleNomadMigration"

ThresholdReached ==
    counter >= NomadCamelThreshold \/ caravanCount >= NomadCaravanThreshold

(* The request finds the button enabled *)
MigrationAccepted == MigrationRequest /\ ~nomadDisabled

(* C3 as claimed: a migration request made with counter < 1000 and           *)
(* caravanCount < 100 changes no Ledger field, no timer and not nomadTokens, *)
(* also right after a reset.                                                 *)
C3_RequestBelowThresholdRejected ==
    [][(MigrationRequest /\ ~ThresholdReached)
         => (LedgerUnchanged /\ TimersUnchanged)]_vars

(* C4 as claimed: a migration request made with counter >= 1000 or           *)
(* caravanCount >= 100 is accepted: tokens are awarded and the reset runs.   *)
C4_RequestAtThresholdAccepted ==
    [][(MigrationRequest /\ ThresholdReached)
         => (nomadTokens' > nomadTokens /\ counter' = 0 /\ caravanCount' = 0)]_vars

(* C5: an accepted migration adds max(1, floor(counter/1000) +               *)
(* floor(caravanCount/100)) of the values before the reset to nomadTokens    *)
(* and leaves the seven other Ledger fields and the four timers at 0; with   *)
(* counter = 1000 and caravanCount = 0 it adds 1.                            *)
C5_AcceptedMigration ==
    [][MigrationAccepted =>
         LET q == (counter \div 1000) + (caravanCount \div 100)
         IN /\ nomadTokens' = nomadTokens + (IF q >= 1 THEN q ELSE 1)
            /\ (counter = 1000 /\ caravanCount = 0) => nomadTokens' = nomadTokens + 1
            /\ counter' = 0 /\ goldAmount' = 0 /\ grassAmount' = 0
            /\ farmCount' = 0 /\ grasslandCount' = 0 /\ guardCampCount' = 0
            /\ caravanCount' = 0
            /\ farmProductionTimer' = 0 /\ grassConsumptionTimer' = 0
            /\ caravanGoldTimer' = 0 /\ banditTimer' = 0]_vars

(* A first migration was accepted and earned one token *)
C5_Witness ==
    /\ lastOp = "handleNomadMigration"
    /\ emitted = <<Msg("Nomads set out", 1, 0)>>
    /\ nomadTokens = 1
    /\ counter = 0 /\ caravanCount = 0 /\ goldAmount = 0

(* C6: nomadTokens never decreases in a step, and only an accepted migration *)
(* changes it.                                                               *)
C6_TokensMonotone ==
    [][/\ nomadTokens' >= nomadTokens
       /\ (nomadTokens' # nomadTokens) => MigrationAccepted]_vars

(* A session that held three tokens migrated and holds four *)
C6_Witness ==
    /\ lastOp = "handleNomadMigration"
    /\ nomadTokens = 4

PurchaseStep(op, cost, count) ==
    lastOp' = op =>
        IF goldAmount >= cost
        THEN /\ goldAmount' = goldAmount - cost
             /\ farmCount' = farmCount + (IF count = "farmCount" THEN 1 ELSE 0)
             /\ grasslandCount' = grasslandCount + (IF count = "grasslandCount" THEN 1 ELSE 0)
             /\ guardCampCount' = guardCampCount + (IF count = "guardCampCount" THEN 1 ELSE 0)
             /\ UNCHANGED <<counter, grassAmount, caravanCount, nomadTokens>>
             /\ TimersUnchanged
        ELSE LedgerUnchanged /\ TimersUnchanged

(* C7: a farm (25), grassland (50) or guard camp (100) purchase succeeds iff *)
(* goldAmount covers the cost: then goldAmount drops by the cost, the        *)
(* matching count rises by 1 and no other Ledger field or timer changes;     *)
(* otherwise no Ledger field or timer changes.                               *)
C7_StructurePurchase ==
    [][/\ PurchaseStep("handleFarmPurchase", 25, "farmCount")
       /\ PurchaseStep("handleGrasslandPurchase", 50, "grasslandCount")
       /\ PurchaseStep("handleGuardPurchase", 100, "guardCampCount")]_vars

(* Scenario D: a farm was bought from 40 gold and the second attempt, at 15, *)
(* was refused                                                               *)
C7_Witness ==
    /\ lastOp = "handleFarmPurchase"
    /\ emitted = <<Msg("Need more gold for a farm", 0, 0)>>
    /\ goldAmount = 15
    /\ farmCount = 1

(* C8: in every step that raises caravanCount it rises by exactly 1 and      *)
(* counter drops by exactly 100; a caravan click with counter < 100 changes  *)
(* no Ledger field, no timer, no pending save and no status.                 *)
C8_CaravanCostsHundredCamels ==
    [][/\ (caravanCount' > caravanCount)
            => (caravanCount' = caravanCount + 1 /\ counter' = counter - 100)
       /\ (lastOp' = "handleCaravanClick" /\ counter < 100)
            => /\ LedgerUnchanged /\ TimersUnchanged
               /\ UNCHANGED <<saveThrottleTimeout, lastStatusText, nomadDisabled, camels>>]_vars

(* A caravan was formed out of a herd of 999 *)
C8_Witness ==
    /\ lastOp = "handleCaravanClick"
    /\ caravanCount = 1
    /\ counter = 899

FailedPurchase ==
    \/ lastOp' = "handleFarmPurchase" /\ goldAmount < 25
    \/ lastOp' = "handleGrasslandPurchase" /\ goldAmount < 50
    \/ lastOp' = "handleGuardPurchase" /\ goldAmount < 100
    \/ lastOp' = "handleCaravanClick" /\ counter < 100

(* C9 as claimed: every purchase that fails for insufficient resources,      *)
(* caravan formation included, hands a status message to the Notifier and    *)
(* changes nothing else.                                                     *)
C9_FailedPurchaseEmitsStatus ==
    [][FailedPurchase
         => /\ Len(emitted') >= 1
            /\ LedgerUnchanged /\ TimersUnchanged
            /\ UNCHANGED <<saveThrottleTimeout, nomadDisabled, camels>>]_vars

(* C10: spendGold(x) and spendCamels(x) return failure and leave the balance  *)
(* unchanged when x <= 0 or x exceeds the balance; otherwise they return     *)
(* success and the balance drops by exactly x, staying >= 0.                 *)
C10_SpendPrimitives ==
    [][/\ lastOp' = "spendGold" =>
            IF arg' <= 0 \/ arg' > goldAmount
            THEN ret' = FALSE /\ goldAmount' = goldAmount
            ELSE ret' = TRUE /\ goldAmount' = goldAmount - arg' /\ goldAmount' >= 0
       /\ lastOp' = "spendCamels" =>
            IF arg' <= 0 \/ arg' > counter
            THEN ret' = FALSE /\ counter' = counter
            ELSE ret' = TRUE /\ counter' = counter - arg' /\ counter' >= 0]_vars

(* spendCamels spent the whole herd and gold is left untouched *)
C10_Witness ==
    /\ lastOp = "spendCamels"
    /\ ret = TRUE
    /\ arg > 0
    /\ counter = 0
    /\ goldAmount > 0

(* C11: saving and then loading with no mutation in between gives back the  *)
(* state that was saved: when the save timeout has written the snapshot and  *)
(* the page is then opened again, the eight Ledger fields and the four       *)
(* timers that init() hydrates equal their values before the save.           *)
C11_SaveThenLoadRoundTrip ==
    [][(lastOp = "saveGameState" /\ logged = "" /\ lastOp' = "init")
        => \A f \in SnapshotFields : State'[f] = State[f]]_vars

(* A page opened again after ticks and clicks, hydrated with a Ledger and    *)
(* timers that differ from the defaults                                      *)
C11_Witness ==
    /\ lastOp = "init"
    /\ ticks > 0
    /\ clicks > 0
    /\ counter > 0
    /\ farmProductionTimer > 0
    /\ localStorage.data = payload(State)

(* C12: loadGameState validates field by field: each of the twelve fields    *)
(* whose stored value is a finite number takes that number, and each field   *)
(* whose stored value is missing or not a finite number keeps the value it   *)
(* had in memory before the load, whatever the other fields hold.            *)
C12_PerFieldValidation ==
    [][(lastOp' = "init" /\ localStorage.kind = "json")
        => \A f \in SnapshotFields :
              State'[f] = IF isFinite(localStorage.data[f])
                          THEN localStorage.data[f][2]
                          ELSE State[f]]_vars

(* A snapshot with an invalid camel count and an invalid bandit timer next   *)
(* to valid fields: the valid ones are adopted, the two keep their values    *)
C12_Witness ==
    /\ lastOp = "init"
    /\ localStorage.kind = "json"
    /\ localStorage.data["counter"] = OtherValue
    /\ localStorage.data["banditTimer"] = OtherValue
    /\ localStorage.data["goldAmount"] = NumberValue(1)
    /\ counter = 0
    /\ banditTimer = 0
    /\ goldAmount = 1
    /\ caravanGoldTimer = 1

(* C13: after loadGameState has run on whatever JSON value is stored, every  *)
(* Ledger count is a non-negative integer and every timer is at least 0.     *)
C13_HydratedStateValid ==
    lastOp = "init"
        => /\ \A f \in LedgerFields : State[f] \in Nat
           /\ \A f \in TimerFields : State[f] >= 0

(* C14: when nothing is stored under the key, or reading or parsing what is  *)
(* stored fails, loadGameState leaves every Ledger field and timer at its    *)
(* value before the load and no exception leaves it.                         *)
C14_FailedLoadKeepsState ==
    [][(lastOp' = "init" /\ localStorage.kind # "json")
        => /\ \A f \in SnapshotFields : State'[f] = State[f]
           /\ ~uncaught'
           /\ logged' = IF Throws(localStorage) THEN LoadFailed ELSE ""]_vars

(* init() has run on a stored value that JSON.parse rejects *)
C14_Witness ==
    /\ lastOp = "init"
    /\ localStorage.kind = "garbage"
    /\ logged = LoadFailed
    /\ ~uncaught
    /\ \A f \in SnapshotFields : State[f] = 0

(* C15: a store write that fails changes no Ledger field and no timer, lets  *)
(* no exception out and clears the handle of the pending save, so that the   *)
(* next save request schedules a new write, due SaveDelay later.  A failed   *)
(* write shows as the logged error, or as an exception that got out.         *)
C15_FailedWrite ==
    [][/\ (lastOp' = "saveGameState" /\ (logged' # "" \/ uncaught'))
            => /\ LedgerUnchanged
               /\ TimersUnchanged
               /\ localStorage' = localStorage
               /\ ~uncaught'
               /\ ~saveThrottleTimeout'
       /\ (logged = SaveFailed /\ queued' > 0)
            => /\ saveThrottleTimeout'
               /\ pendingSaves' = <<now + SaveDelay>>]_vars

(* A write has just failed: the snapshot in the store lacks the camels of    *)
(* the live Ledger and no save is pending                                    *)
C15_Witness ==
    /\ lastOp = "saveGameState"
    /\ logged = SaveFailed
    /\ ~saveThrottleTimeout
    /\ pendingSaves = <<>>
    /\ counter > 0
    /\ localStorage.data # payload(State)

(* C16: the save is debounced.  At most one write is pending at any moment;  *)
(* a handler that requests a save leaves exactly one timeout, due SaveDelay  *)
(* after the request, whatever was pending before; and the write happens     *)
(* when that one timeout is due, SaveDelay after the last request, storing   *)
(* the live state of that moment and leaving nothing pending.                *)
C16_Debounce ==
    [][/\ Len(pendingSaves') <= 1
       /\ (queued' > 0 /\ lastOp' \notin {"clock", "camelImage.onload"})
            => /\ saveThrottleTimeout'
               /\ pendingSaves' = <<now + SaveDelay>>
       /\ lastOp' = "saveGameState"
            => /\ pendingSaves = <<now>>
               /\ pendingSaves' = <<>>
               /\ ~saveThrottleTimeout'
               /\ localStorage' = JsonStore(payload(State))
               /\ payload(State)' = payload(State)]_vars

(* A burst in progress: the one pending write is due more than SaveDelay     *)
(* after the first change it will store, because a later request moved it    *)
C16_Witness ==
    /\ Len(pendingSaves) = 1
    /\ dirtySince >= 0
    /\ pendingSaves[1] > dirtySince + SaveDelay
    /\ counter >= 2

(* C17: with a working store, at every moment the stored snapshot lacks only *)
(* changes made during the last SaveDelay milliseconds: the oldest change to *)
(* the Ledger or the timers that is not in the snapshot is at most that old  *)
(* (the instant at which a write is due and about to happen is left out).    *)
C17_LossWithinSaveDelay ==
    \/ dirtySince = 0 - 1
    \/ now - dirtySince <= SaveDelay
    \/ pendingSaves # <<>> /\ Head(pendingSaves) = now

(* C17, amended: with a working store, whenever no write is pending the      *)
(* stored snapshot has the eight Ledger fields of the live state (the timers *)
(* may be ahead of it), and a pending write is due within SaveDelay.         *)
C17_LedgerSavedWhenIdle ==
    /\ pendingSaves = <<>>
         => \A f \in LedgerFields : localStorage.data[f] = NumberValue(State[f])
    /\ pendingSaves # <<>>
         => /\ now <= pendingSaves[1]
            /\ pendingSaves[1] <= now + SaveDelay

(* Nothing is pending, the stored Ledger is the live one, and the timers in  *)
(* the store have been behind for longer than SaveDelay                      *)
C17_Witness ==
    /\ pendingSaves = <<>>
    /\ dirtySince >= 0
    /\ now - dirtySince > SaveDelay
    /\ localStorage.data["banditTimer"] # NumberValue(banditTimer)
    /\ counter > 0
    /\ localStorage.data["counter"] = NumberValue(counter)

AnyFlag == \E i \in 1 .. 5 : flags[i]

(* C18: the flag a resolver returns is true exactly when that resolver       *)
(* changed a Ledger field; a tick requests a save exactly when one of its    *)
(* five flags is true; and a tick whose flags are all false changes no       *)
(* Ledger field.                                                             *)
C18_FlagsTellLedgerChanges ==
    [][/\ lastOp' \in {"applyGrasslandGrowth", "processFarmProduction",
                       "processGrassConsumption", "processCaravanGold",
                       "processBanditRaid"}
            => (ret' <=> ~LedgerUnchanged)
       /\ lastOp' = "runResourceTick"
            => /\ (queued' > 0) <=> AnyFlag'
               /\ ~AnyFlag' => LedgerUnchanged]_vars

(* A grazing cycle ran dry without taking any grass: the flag is false, the  *)
(* timer was consumed and a status was emitted                               *)
C18_Witness ==
    /\ lastOp = "processGrassConsumption"
    /\ ~ret
    /\ grassConsumptionTimer = 0
    /\ Emitted("Grass has run dry")
    /\ ~saveThrottleTimeout

(* C19: a message handed to the Notifier is suppressed when it is the text   *)
(* shown last and fewer than StatusWindow milliseconds have passed since     *)
(* that text was last written to the label: then nothing changes, the time   *)
(* of the last write included.  Any other message (a different text, or the  *)
(* same text once the window is over) is written and restarts the window.    *)
C19_StatusThrottle ==
    [][lastOp' = "updateStatusMessage"
        => IF emitted'[1] = lastStatusText
              /\ now - lastStatusUpdateTime < StatusWindow
           THEN /\ lastStatusText' = lastStatusText
                /\ lastStatusUpdateTime' = lastStatusUpdateTime
           ELSE /\ lastStatusText' = emitted'[1]
                /\ lastStatusUpdateTime' = now]_vars

(* A repeated message was suppressed late in its window and left the time of *)
(* the last write where it was                                               *)
C19_Witness ==
    /\ lastOp = "updateStatusMessage"
    /\ emitted = <<lastStatusText>>
    /\ lastStatusUpdateTime > 0
    /\ now - lastStatusUpdateTime >= StatusWindow - StatusStep
    /\ now - lastStatusUpdateTime < StatusWindow

SpawnRequest == lastOp' = "spawnCamel"

OneCamelSpawned ==
    /\ counter' = counter + 1
    /\ camels' = camels + 1
    /\ UNCHANGED <<goldAmount, grassAmount, farmCount, grasslandCount,
                   guardCampCount, caravanCount, nomadTokens>>
    /\ TimersUnchanged

(* C20: every invocation of the user spawn increases the camel count by      *)
(* exactly 1 and adds exactly one visual entity, and leaves every other      *)
(* Ledger field and every timer unchanged.                                   *)
C20_EverySpawnAddsOne ==
    [][SpawnRequest => OneCamelSpawned]_vars

(* C20, amended: an invocation of the user spawn made once the camel image   *)
(* has loaded increases the camel count by exactly 1, adds exactly one       *)
(* visual entity, leaves every other Ledger field and every timer unchanged  *)
(* and requests a save; an invocation made while the image is still loading  *)
(* changes nothing, not even the camel count, and requests no save.          *)
C20_SpawnWhenImageLoaded ==
    [][SpawnRequest
        => IF camelImageComplete
           THEN OneCamelSpawned /\ queued' = 1
           ELSE /\ LedgerUnchanged
                /\ TimersUnchanged
                /\ camels' = camels
                /\ queued' = 0]_vars

(* A spawn has just added a camel and its visual entity *)
C20_Witness ==
    /\ lastOp = "spawnCamel"
    /\ camelImageComplete
    /\ freshStart
    /\ counter = 2
    /\ camels = 2
    /\ queued = 1

(* C21: outside an accepted migration no step lowers farmCount,              *)
(* grasslandCount or guardCampCount, and caravanCount is lowered only by a   *)
(* tick whose bandit raid attacked and took a caravan, by exactly 1 for the  *)
(* one cycle a tick resolves.                                                *)
C21_StructuresKept ==
    [][~MigrationAccepted
        => /\ farmCount' >= farmCount
           /\ grasslandCount' >= grasslandCount
           /\ guardCampCount' >= guardCampCount
           /\ caravanCount' < caravanCount
                => /\ lastOp' = "runResourceTick"
                   /\ flags'[5]
                   /\ caravanCount' = caravanCount - 1
                   /\ \E i \in 1 .. Len(emitted') :
                         /\ emitted'[i][1] = "Bandits struck"
                         /\ emitted'[i][2] = 1]_vars

(* A raid has just taken the only caravan, next to a farm bought earlier *)
C21_Witness ==
    /\ lastOp = "runResourceTick"
    /\ flags[5]
    /\ Emitted("Bandits struck")
    /\ caravanCount = 0
    /\ farmCount = 1
    /\ nomadTokens = 0

(* The place of a status message in the order of the resolvers *)
ResolverOf(message) ==
    CASE message[1] = "Grasslands grew" -> 1
      [] message[1] = "Farms bred" -> 2
      [] message[1] \in {"Camels grazed", "Grass has run dry"} -> 3
      [] message[1] = "Caravans hauled" -> 4
      [] message[1] \in {"Bandits struck", "Bandits were spotted"} -> 5
      [] OTHER -> 0

(* The timer went from old to new by one second, less whole cycles *)
AdvancedOneSecond(old, new, cycle) ==
    \E k \in 0 .. FloorDiv(old + 1, cycle) : new = old + 1 - k * cycle

(* C22: every tick runs the five resolvers once each, in the order growth,   *)
(* farm, grass consumption, caravan payout, bandit raid, whatever the        *)
(* earlier ones returned: each of the four timers has advanced by the one    *)
(* elapsed second (less the cycles consumed, or cut to the cap of an idle    *)
(* farm), growth has acted whenever a grassland exists, and the messages of  *)
(* the tick come in resolver order, at most one per resolver (the raid, last *)
(* in the order, speaks once for each attacking cycle).                      *)
C22_FullSequenceEveryTick ==
    [][lastOp' = "runResourceTick"
        => /\ \/ AdvancedOneSecond(farmProductionTimer, farmProductionTimer', FarmCycle)
              \/ /\ farmProductionTimer + 1 > FarmCycle
                 /\ farmProductionTimer' = FarmCycle
           /\ AdvancedOneSecond(grassConsumptionTimer, grassConsumptionTimer', GrassCycle)
           /\ AdvancedOneSecond(caravanGoldTimer, caravanGoldTimer', CaravanCycle)
           /\ AdvancedOneSecond(banditTimer, banditTimer', BanditCycle)
           /\ flags'[1] <=> grasslandCount > 0
           /\ \A i \in 1 .. Len(emitted') - 1 :
                 \/ ResolverOf(emitted'[i]) < ResolverOf(emitted'[i + 1])
                 \/ ResolverOf(emitted'[i]) = 5 /\ ResolverOf(emitted'[i + 1]) = 5
           /\ \A i \in 1 .. Len(emitted') : ResolverOf(emitted'[i]) >= 1]_vars

(* A tick in which growth, the farm, grazing and the payout all reported a   *)
(* change and the bandit timer still rolled over                             *)
C22_Witness ==
    /\ lastOp = "runResourceTick"
    /\ flags[1] /\ flags[2] /\ flags[3] /\ flags[4]
    /\ Len(emitted) >= 4
    /\ banditTimer = 0
    /\ caravanGoldTimer = 0

(* What one tick of one second breeds and grazes when each resolver works on *)
(* what the one before it left                                               *)
GrassAfterGrowth == grassAmount + grasslandCount

BredThisTick ==
    IF farmCount > 0 /\ farmProductionTimer + 1 >= FarmCycle /\ GrassAfterGrowth > 0
    THEN Min(FloorDiv(farmProductionTimer + 1, FarmCycle) * farmCount, GrassAfterGrowth)
    ELSE 0

GrazedThisTick ==
    IF grassConsumptionTimer + 1 >= GrassCycle /\ counter + BredThisTick > 0
    THEN Min((counter + BredThisTick) * FloorDiv(grassConsumptionTimer + 1, GrassCycle),
             GrassAfterGrowth - BredThisTick)
    ELSE 0

(* C23: within one tick farm production works on the grass that grassland    *)
(* growth has just added, and grass consumption on the grass farm production *)
(* left and on a herd that includes the camels just bred.                    *)
C23_LaterResolversSeeEarlier ==
    [][lastOp' = "runResourceTick"
        => /\ counter' = counter + BredThisTick
           /\ grassAmount' = GrassAfterGrowth - BredThisTick - GrazedThisTick
           /\ flags'[2] <=> BredThisTick > 0
           /\ flags'[3] <=> GrazedThisTick > 0]_vars

(* The tick of the example: no grass, one grassland, one farm a second short *)
(* of its cycle: 1 grass grew, 1 camel was bred from it, no grass is left    *)
C23_Witness ==
    /\ lastOp = "runResourceTick"
    /\ Len(emitted) = 2
    /\ emitted[1] = Msg("Grasslands grew", 1, 0)
    /\ emitted[2] = Msg("Farms bred", 1, 0)
    /\ ~flags[3]
    /\ grasslandCount = 1
    /\ farmCount = 1
    /\ farmProductionTimer = 0
    /\ counter = 1
    /\ grassAmount = 0

(* The number a message of the given kind carries at position n, 0 when the  *)
(* handler emitted no such message                                           *)
Carried(messages, kind, n) ==
    IF \E i \in 1 .. Len(messages) : messages[i][1] = kind
    THEN messages[CHOOSE i \in 1 .. Len(messages) : messages[i][1] = kind][n]
    ELSE 0

Hauled == Carried(emitted, "Caravans hauled", 2)

Stolen == Carried(emitted, "Bandits struck", 3)

Strikes ==
    Cardinality({ i \in 1 .. Len(emitted) : emitted[i][1] = "Bandits struck" })

(* C24: when bandits strike in a tick (once: a tick resolves one bandit      *)
(* cycle unless the timer was loaded beyond a cycle), what they steal is     *)
(* computed from the gold balance that already holds the payout of that      *)
(* tick: between a tenth and a fifth of the balance before the tick plus the *)
(* payout.                                                                   *)
C24_RaidSeesPayout ==
    [][(lastOp' = "runResourceTick" /\ Strikes' = 1)
        => /\ Stolen' \in StolenAmounts(goldAmount + Hauled')
           /\ goldAmount' = goldAmount + Hauled' - Stolen']_vars

(* A tick that started without gold paid out and was raided: part of the     *)
(* payout is gone, the balance is below what the caravans hauled             *)
C24_Witness ==
    /\ lastOp = "runResourceTick"
    /\ flags[4]
    /\ Emitted("Bandits struck")
    /\ Hauled > 0
    /\ Stolen > 0
    /\ goldAmount = Hauled - Stolen

-----------------------------------------------------------------------------
(* C25: a call of the grassland-growth resolver with e seconds elapsed
   changes nothing and reports no change when there is no grassland or e is
   not positive; otherwise it adds grasslandCount * e to the grass (e is a
   whole number here, so the floor is the product itself), reports the change
   and leaves every other field of the ledger and all four timers alone *)
C25_GrowthAddsGrasslandTimesElapsed ==
    [][lastOp' = "applyGrasslandGrowth"
        => /\ TimersUnchanged
           /\ UNCHANGED <<counter, goldAmount, caravanCount, farmCount,
                          grasslandCount, guardCampCount, nomadTokens>>
           /\ IF grasslandCount = 0 \/ arg' <= 0
              THEN /\ grassAmount' = grassAmount
                   /\ ~ret'
                   /\ emitted' = <<>>
              ELSE /\ grassAmount' = grassAmount + grasslandCount * arg'
                   /\ ret'
                   /\ emitted'
                        = <<Msg("Grasslands grew", grasslandCount * arg', 0)>>]_vars

(* Ten grasslands and one second elapsed: ten grass on an empty pasture *)
C25_Witness ==
    /\ lastOp = "applyGrasslandGrowth"
    /\ arg = 1
    /\ ret
    /\ grasslandCount = 10
    /\ grassAmount = 10

-----------------------------------------------------------------------------
(* C26: the farm resolver produces exactly when there is a farm, a whole
   cycle on the timer after the elapsed second is added, and grass; it then
   breeds min(cycles * farmCount, grass) camels for as much grass, and takes
   every pending cycle off the timer, also those the grass could not pay for *)
FarmCycles == FloorDiv(farmProductionTimer + 1, FarmCycle)

CamelsProduced == Min(FarmCycles * farmCount, grassAmount)

C26_FarmProduction ==
    [][lastOp' = "processFarmProduction"
        => /\ ret' <=> (farmCount > 0 /\ FarmCycles >= 1 /\ grassAmount > 0)
           /\ ret' => /\ CamelsProduced > 0
                      /\ grassAmount' = grassAmount - CamelsProduced
                      /\ counter' = counter + CamelsProduced
                      /\ farmProductionTimer'
                           = farmProductionTimer + 1 - FarmCycles * FarmCycle
                      /\ emitted' = <<Msg("Farms bred", CamelsProduced, 0)>>
                      /\ UNCHANGED <<goldAmount, caravanCount, farmCount,
                                     grasslandCount, guardCampCount, nomadTokens,
                                     grassConsumptionTimer, caravanGoldTimer,
                                     banditTimer>>]_vars

(* Three farms, 100 grass, the timer reaching 4: six camels, 94 grass, timer 0 *)
C26_Witness ==
    /\ lastOp = "processFarmProduction"
    /\ ret
    /\ emitted = <<Msg("Farms bred", 6, 0)>>
    /\ farmCount = 3
    /\ grassAmount = 94
    /\ farmProductionTimer = 0

-----------------------------------------------------------------------------
(* C27: whenever the farm resolver produces nothing (no farm, no whole cycle
   pending, or no grass), farmProductionTimer is at most one cycle (2)
   afterwards.  With farmCount = 0 the resolver returns straight after adding
   the elapsed second, before either Math.min, so the timer passes 2 *)
C27_IdleFarmTimerCapped ==
    (lastOp = "processFarmProduction" /\ ~ret) => farmProductionTimer <= FarmCycle

-----------------------------------------------------------------------------
(* C28: a call of the grass-consumption resolver with a herd (camelCount > 0)
   and at least one whole cycle of 10 on the timer after the elapsed second
   is added uses min(camelCount * cycles, grass) grass, never taking the
   grass below 0, takes every cycle off the timer even when nothing was
   used, and reports a change exactly when something was used *)
GrazingCycles == FloorDiv(grassConsumptionTimer + 1, GrassCycle)

GrassUsed == Min(counter * GrazingCycles, grassAmount)

C28_GrassConsumption ==
    [][(lastOp' = "processGrassConsumption" /\ counter > 0 /\ GrazingCycles >= 1)
        => /\ grassAmount' = grassAmount - GrassUsed
           /\ grassAmount' >= 0
           /\ grassConsumptionTimer'
                = grassConsumptionTimer + 1 - GrazingCycles * GrassCycle
           /\ ret' <=> GrassUsed > 0
           /\ UNCHANGED <<counter, goldAmount, caravanCount, farmCount,
                          grasslandCount, guardCampCount, nomadTokens,
                          farmProductionTimer, caravanGoldTimer, banditTimer>>]_vars

(* Three camels on a bare pasture with cycles pending: nothing is used, no
   change is reported, and the cycles are gone from the timer *)
C28_Witness ==
    /\ lastOp = "processGrassConsumption"
    /\ ~ret
    /\ emitted = <<Msg("Grass has run dry", 0, 0)>>
    /\ counter = 3
    /\ grassAmount = 0
    /\ grassConsumptionTimer = 0

-----------------------------------------------------------------------------
(* C29: with no camels the grass-consumption resolver only adds the elapsed
   second to grassConsumptionTimer, and with no caravans the caravan resolver
   only adds it to caravanGoldTimer: no cycle is taken off, grass and gold
   stay as they were, no change is reported and nothing is said *)
C29_TimersAccrueWithoutConsumers ==
    [][/\ (lastOp' = "processGrassConsumption" /\ counter = 0)
            => /\ grassConsumptionTimer' = grassConsumptionTimer + arg'
               /\ UNCHANGED <<farmProductionTimer, caravanGoldTimer, banditTimer>>
               /\ LedgerUnchanged
               /\ ~ret'
               /\ emitted' = <<>>
       /\ (lastOp' = "processCaravanGold" /\ caravanCount = 0)
            => /\ caravanGoldTimer' = caravanGoldTimer + arg'
               /\ UNCHANGED <<farmProductionTimer, grassConsumptionTimer,
                              banditTimer>>
               /\ LedgerUnchanged
               /\ ~ret'
               /\ emitted' = <<>>]_vars

(* No caravans and a timer already past one cycle: it moves on to 120 *)
C29_Witness ==
    /\ lastOp = "processCaravanGold"
    /\ caravanCount = 0
    /\ caravanGoldTimer = 2 * CaravanCycle
    /\ goldAmount = Purse
    /\ ~ret

-----------------------------------------------------------------------------
(* C30: a call of the caravan resolver with caravans and at least one whole
   cycle of 60 on the timer after the elapsed second is added raises the gold
   by a total G with
       caravanCount * cycles * floor(14 * m) <= G
           <= caravanCount * cycles * floor(21 * m),   m = 1 + nomadTokens / 100,
   G is positive, the change is reported, and every cycle is taken off
   caravanGoldTimer *)
CaravanCycles == FloorDiv(caravanGoldTimer + 1, CaravanCycle)

ScaledRoll(baseGold) == FloorDiv(baseGold * (100 + nomadTokens), 100)

C30_CaravanPayout ==
    [][(lastOp' = "processCaravanGold" /\ caravanCount > 0 /\ CaravanCycles >= 1)
        => LET G == goldAmount' - goldAmount
               rolls == caravanCount * CaravanCycles
           IN /\ rolls * ScaledRoll(MinRoll) <= G
              /\ G <= rolls * ScaledRoll(MinRoll + RollSpan - 1)
              /\ G > 0
              /\ ret'
              /\ emitted' = <<Msg("Caravans hauled", G, 0)>>
              /\ caravanGoldTimer' = caravanGoldTimer + 1 - CaravanCycles * CaravanCycle
              /\ UNCHANGED <<counter, caravanCount, farmCount, grassAmount,
                             grasslandCount, guardCampCount, nomadTokens,
                             farmProductionTimer, grassConsumptionTimer,
                             banditTimer>>]_vars

(* Two caravans, eight tokens, one cycle, both rolls 21: 2 * floor(22.68) *)
C30_Witness ==
    /\ lastOp = "processCaravanGold"
    /\ ret
    /\ caravanCount = 2
    /\ nomadTokens = 8
    /\ emitted = <<Msg("Caravans hauled", 44, 0)>>
    /\ goldAmount = 44
    /\ caravanGoldTimer = 0

-----------------------------------------------------------------------------
(* C31: the bandit timer is consumed unconditionally: after every call of the
   bandit resolver, alone or inside a tick, banditTimer is the old timer plus
   the elapsed second less every whole cycle of 60, so 0 <= banditTimer < 60,
   whatever caravanCount, guardCampCount and goldAmount are and whether or
   not a cycle attacked *)
C31_BanditTimerConsumed ==
    [][lastOp' \in {"processBanditRaid", "runResourceTick"}
        => /\ banditTimer' = (banditTimer + 1) % BanditCycle
           /\ 0 <= banditTimer'
           /\ banditTimer' < BanditCycle]_vars

(* A cycle resolved with nothing to raid and no attack: the timer is back at
   0 all the same *)
C31_Witness ==
    /\ lastOp = "processBanditRaid"
    /\ banditTimer = 0
    /\ emitted = <<>>
    /\ ~ret
    /\ caravanCount = 0
    /\ guardCampCount = 0
    /\ goldAmount = 0

-----------------------------------------------------------------------------
(* The bandit resolver called with exactly one whole cycle pending: the cycle
   attacked iff the resolver said something *)
OneBanditCycle ==
    /\ lastOp' = "processBanditRaid"
    /\ FloorDiv(banditTimer + 1, BanditCycle) = 1

Attacked == emitted # <<>>

(* C32: in an attacking bandit cycle the gold stolen s satisfies
   floor(goldAmount / 10) <= s <= floor(goldAmount / 5) and s <= goldAmount,
   so goldAmount stays >= 0, and a balance of 5 gold or less is never
   reduced; a peaceful cycle changes neither goldAmount nor caravanCount.
   The bounds hold; a balance of exactly 5 can lose 1 gold, when the factor
   0.1 + Math.random() * 0.1 is rounded up to 0.2 *)
C32_StolenWithinBounds ==
    [][OneBanditCycle
        => IF Attacked'
           THEN LET s == goldAmount - goldAmount'
                IN /\ FloorDiv(goldAmount, 10) <= s
                   /\ s <= FloorDiv(goldAmount, 5)
                   /\ s <= goldAmount
                   /\ goldAmount' >= 0
                   /\ goldAmount <= 5 => s = 0
           ELSE UNCHANGED <<goldAmount, caravanCount>>]_vars

-----------------------------------------------------------------------------
(* How many caravans an attacking cycle can take in the state s *)
CaravanLosses(s) == { s.caravanCount - a.s.caravanCount : a \in BanditAttack(s) }

(* C33: in an attacking bandit cycle with caravans, exactly one caravan is
   lost when there is no guard camp, and with a guard camp both outcomes, one
   lost and none lost, are possible; without caravans none is lost and
   caravanCount stays 0.  Guard camps beyond the first do not change the set
   of outcomes *)
C33_CaravanLoss ==
    [][/\ (OneBanditCycle /\ Attacked')
            => /\ (caravanCount > 0 /\ guardCampCount = 0)
                    => caravanCount' = caravanCount - 1
               /\ (caravanCount > 0 /\ guardCampCount > 0)
                    => caravanCount' \in {caravanCount - 1, caravanCount}
               /\ caravanCount = 0 => caravanCount' = 0
               /\ guardCampCount' = guardCampCount
       /\ (caravanCount > 0 /\ guardCampCount > 0)
            => /\ CaravanLosses(Begin) = {0, 1}
               /\ BanditAttack(Begin)
                    = { [a EXCEPT !.s.guardCampCount = guardCampCount] :
                        a \in BanditAttack([Begin EXCEPT !.guardCampCount = 1]) }
       /\ (caravanCount > 0 /\ guardCampCount = 0) => CaravanLosses(Begin) = {1}
       /\ caravanCount = 0 => CaravanLosses(Begin) = {0}]_vars

(* Two caravans behind two guard camps, bandits attack, the guards hold: both
   caravans are still there *)
C33_Witness ==
    /\ lastOp = "processBanditRaid"
    /\ Attacked
    /\ guardCampCount = 2
    /\ caravanCount = 2
    /\ goldAmount = 0
    /\ emitted = <<Msg("Bandits were spotted", 0, 0)>>

-----------------------------------------------------------------------------
(* The whole cycles a call of the bandit resolver finds pending *)
BanditCycles == FloorDiv(banditTimer + 1, BanditCycle)

(* What the messages of a call add up to *)
RECURSIVE Reported(_, _)
Reported(messages, n) ==
    IF messages = <<>> THEN 0
    ELSE Head(messages)[n] + Reported(Tail(messages), n)

SomethingLost == caravanCount' < caravanCount \/ goldAmount' < goldAmount

(* C34 as stated: the bandit resolver emits exactly one status message for
   each whole cycle it processes, peaceful cycles included, and reports a
   change iff a caravan or gold was lost in one of them *)
C34_OneMessagePerCycle ==
    [][lastOp' = "processBanditRaid"
        => /\ Len(emitted') = BanditCycles
           /\ ret' <=> SomethingLost]_vars

(* C34 amended: the bandit resolver emits one status message for each
   attacking cycle and none for a peaceful one: at most one per cycle, a call
   that says nothing is always possible, the losses are exactly those the
   messages tell, a strike tells a loss, and a change is reported iff a
   caravan or gold was lost *)
C34_OneMessagePerAttack ==
    [][/\ lastOp' = "processBanditRaid"
            => /\ Len(emitted') <= BanditCycles
               /\ \A i \in 1 .. Len(emitted') :
                     \/ /\ emitted'[i][1] = "Bandits struck"
                        /\ emitted'[i][2] \in {0, 1}
                        /\ emitted'[i][2] + emitted'[i][3] > 0
                     \/ emitted'[i] = Msg("Bandits were spotted", 0, 0)
               /\ caravanCount - caravanCount' = Reported(emitted', 2)
               /\ goldAmount - goldAmount' = Reported(emitted', 3)
               /\ ret' <=> SomethingLost
               /\ ret' <=> Emitted("Bandits struck")'
       /\ lastOp = "init"
            => \E r \in processBanditRaid(Begin, 1) :
                 r.s.emitted = <<>> /\ ~r.changed]_vars

(* An attack that found no caravan and too little gold to take: one message,
   no change reported *)
C34_Witness ==
    /\ lastOp = "processBanditRaid"
    /\ emitted = <<Msg("Bandits were spotted", 0, 0)>>
    /\ ~ret
    /\ caravanCount = 0
    /\ goldAmount = 4

-----------------------------------------------------------------------------
(* C35: gainGold(x) and gainCamels(x, _) with x <= 0 change nothing and
   schedule no save; with x > 0 they add exactly x to goldAmount and to
   camelCount, change no other field of the ledger and no timer, and
   schedule a save *)
C35_GainPrimitives ==
    [][/\ lastOp' = "gainGold"
            => /\ TimersUnchanged
               /\ UNCHANGED <<counter, caravanCount, farmCount, grassAmount,
                              grasslandCount, guardCampCount, nomadTokens, camels>>
               /\ IF arg' <= 0
                  THEN /\ goldAmount' = goldAmount
                       /\ queued' = 0
                       /\ UNCHANGED <<saveThrottleTimeout, pendingSaves>>
                  ELSE /\ goldAmount' = goldAmount + arg'
                       /\ queued' = 1
                       /\ saveThrottleTimeout'
       /\ lastOp' = "gainCamels"
            => /\ TimersUnchanged
               /\ UNCHANGED <<goldAmount, caravanCount, farmCount, grassAmount,
                              grasslandCount, guardCampCount, nomadTokens>>
               /\ IF arg' <= 0
                  THEN /\ counter' = counter
                       /\ queued' = 0
                       /\ UNCHANGED <<saveThrottleTimeout, pendingSaves, camels>>
                  ELSE /\ counter' = counter + arg'
                       /\ queued' = 1
                       /\ saveThrottleTimeout']_vars

(* gainGold(0) on a purse of two with no save pending: two gold, none pending *)
C35_Witness ==
    /\ lastOp = "gainGold"
    /\ arg = 0
    /\ goldAmount = 2
    /\ queued = 0
    /\ ~saveThrottleTimeout
    /\ pendingSaves = <<>>

-----------------------------------------------------------------------------
(* C36: no tick adds a visual entity: the camels a farm breeds raise
   camelCount and leave the list of visual camels as it is; the list grows
   only by one, in a spawn the user asked for, and an accepted migration
   empties it *)
C36_TicksAddNoVisualCamel ==
    [][/\ lastOp' = "runResourceTick" => camels' = camels
       /\ camels' > camels => (SpawnRequest /\ camels' = camels + 1)
       /\ MigrationAccepted => camels' = 0]_vars

(* The farms have bred in a tick, and the herd now counts more camels than
   the one the user dropped on the screen *)
C36_Witness ==
    /\ lastOp = "runResourceTick"
    /\ flags[2]
    /\ Emitted("Farms bred")
    /\ camels = 1
    /\ counter > camels

-----------------------------------------------------------------------------
(* What the messages of a tick say was bred and grazed *)
Bred == Carried(emitted, "Farms bred", 2)

Grazed == Carried(emitted, "Camels grazed", 2)

BanditMessages ==
    Cardinality({ i \in 1 .. Len(emitted) : ResolverOf(emitted[i]) = 5 })

(* C37: with one second elapsing per tick no resolver processes more than one
   cycle in a tick: a tick breeds at most farmCount camels, grazes at most
   camelCount grass, pays out at most caravanCount rolls and resolves at most
   one bandit cycle, also in the first tick after the first farm, camel or
   caravan was acquired.  The timers run on while there is no farm, camel or
   caravan, so that first tick finds several cycles pending (the bandit
   timer is taken as below one cycle, as every tick leaves it) *)
C37_OneCyclePerTick ==
    [][lastOp' = "runResourceTick"
        => /\ Bred' <= farmCount
           /\ Grazed' <= counter'
           /\ Hauled' <= caravanCount * ScaledRoll(MinRoll + RollSpan - 1)
           /\ banditTimer < BanditCycle => BanditMessages' <= 1]_vars

-----------------------------------------------------------------------------
(* What a tick and a migration do in one go, set against their statements *)
WholeHandlers ==
    /\ FarmAddsCamels(FarmConvertsGrass(Begin, 1).s,
                      FarmConvertsGrass(Begin, 1).camelsProduced)
         = processFarmProduction(Begin, 1).s
    /\ LET unlocked == [Begin EXCEPT !.nomadDisabled = FALSE]
       IN queueSaveGameState(
              updateStatusMessage(
                  resetResourcesForNomad(
                      [unlocked EXCEPT !.nomadTokens = @ + earnedTokens(Begin)]),
                  Msg("Nomads set out", earnedTokens(Begin), 0)))
            = handleNomadMigration(unlocked)

(* C38: every snapshot that saveGameState writes is the complete live ledger
   and timer set as a finished operation left them: the write happens
   between handlers, never while a tick or a migration is under way, although
   the save is requested in their middle (by gainCamels and gainGold inside
   the tick), and it holds all twelve fields as they are at that moment *)
C38_SnapshotsAtOperationBoundaries ==
    [][/\ lastOp' = "saveGameState"
            => /\ lastOp \notin MidOperation
               /\ pendingSaves # <<>>
               /\ localStorage' = JsonStore(payload(State))
               /\ LedgerUnchanged
               /\ TimersUnchanged
       /\ localStorage' # localStorage => lastOp' = "saveGameState"
       /\ lastOp \in MidOperation => lastOp' # "saveGameState"
       /\ lastOp = "init" => WholeHandlers]_vars

(* The farm bred the 1001st camel in a tick, which asked for the save before
   the tick was over; the snapshot written afterwards has the camel and the
   grass already taken for it *)
C38_Witness ==
    /\ lastOp = "saveGameState"
    /\ ticks = 1
    /\ counter = NomadCamelThreshold + 1
    /\ localStorage = JsonStore(payload(State))
    /\ localStorage.data.counter = NumberValue(NomadCamelThreshold + 1)
    /\ grasslandCount = 1
    /\ grassAmount <= 1

====
